---- MODULE Spec2Model ----
(***************************************************************************)
(* Model of the tab registry of sshs (src/ui/tabs.rs): Session,            *)
(* TabManager and the Ctrl+digit key handler of App that drives it         *)
(* (src/ui/app.rs); and of the terminal buffer and the PTY-backed session  *)
(* (src/ui/session.rs): TerminalBuffer and SshSession.                     *)
(*                                                                         *)
(* Each method of TabManager is an operator from the manager (a record of  *)
(* its three fields) and the arguments to the manager after the call and   *)
(* the returned value; each action applies one method to the state.        *)
(***************************************************************************)
EXTENDS Integers, Sequences, FiniteSets, TLC

VARIABLES
    sessions,               \* TabManager.sessions: Vec<Session>
    current_session_index,  \* TabManager.current_session_index (0-based)
    next_session_id,        \* TabManager.next_session_id
    call,                   \* the last method call: its name, arguments, result
    terminal,               \* a TerminalBuffer (SshSession.terminal)
    fed,                    \* the chunks given to process_data so far
    appended,               \* the lines pushed onto the scrollback so far
    found,                  \* the Vec returned by the last search
    ssh,                    \* an SshSession, its terminal field apart
    os,                     \* the ssh processes spawned by the session
    app,                    \* App: hosts, selection, feedback, form, focus
    template_run,           \* the last Host::run_command_template call
    key_press,              \* the last turn of App::run: key, action, commands
    config_file             \* the hosts that the ssh config file holds

tabVars == <<sessions, current_session_index, next_session_id>>
termVars == <<terminal, fed, appended, found>>
sshVars == <<ssh, os>>
appVars == <<app, template_run, key_press, config_file>>

vars == <<tabVars, call, termVars, sshVars, appVars>>

(***************************************************************************)
(* Program constants and bounds of the exploration.                        *)
(***************************************************************************)
MAX_SESSIONS == 20

\* Spec: add_session is explored while next_session_id <= MaxSessionId.
MaxSessionId == 2
\* SpecNav: add_session is explored while next_session_id <= MaxNavId.
MaxNavId == 3
\* SpecCap: at most MaxCloses sessions are closed.
MaxCloses == 1
\* SpecTerm: process_data is called at most MaxFeeds times.
MaxFeeds == 3
\* SpecTerm: the buffer is constructed with max_lines in 0..MaxScrollback.
MaxScrollback == 3
\* The max_lines of the buffer that the other specifications leave alone.
DefaultMaxLines == 10000
DefaultMaxReconnect == 3
MaxDataSpawns == 1
MaxWrites == 2
MaxReconnect == 2
MaxSpawns == 3

\* Host names given to rename_session.
Names == {"host1", "host2"}
\* The Host given to add_session; TabManager reads and writes only host.name.
TestHost == [name |-> "host1"]
\* No run_command_template call has been made.
NoRun == [op |-> "none"]
\* No key has been pressed.
NoKey == [op |-> "none", action |-> "none", executed |-> <<>>]
\* activity_type strings given to mark_session_activity ("other": no match).
ActivityTypes == {"output", "error", "background", "other"}

\* Option<Child>: no code path of the repository stores Some(child).
NoProcess == "None"

(***************************************************************************)
(* Session                                                                 *)
(***************************************************************************)
\* last_activity: Option<Instant> is kept as "None" or "Some": the field is
\* written by the mark_ methods and read nowhere.
Session_new(id, host) ==
    [ id |-> id,
      host |-> host,
      ssh_process |-> NoProcess,
      is_active |-> FALSE,
      status |-> "Connected",
      has_new_output |-> FALSE,
      has_error |-> FALSE,
      has_background_activity |-> FALSE,
      last_activity |-> "None" ]

mark_new_output(s) ==
    [s EXCEPT !.has_new_output = TRUE, !.last_activity = "Some"]

\* mark_error that sets the flag and leaves the status.
mark_error_FlagOnly(s) == [s EXCEPT !.has_error = TRUE]

mark_error(s) ==
    [s EXCEPT !.has_error = TRUE, !.status = "Disconnected"]

mark_background_activity(s) ==
    [s EXCEPT !.has_background_activity = TRUE, !.last_activity = "Some"]

\* clear_activity_indicators that clears the three flags.
clear_activity_indicators_All(s) ==
    [s EXCEPT !.has_new_output = FALSE, !.has_error = FALSE,
              !.has_background_activity = FALSE]

clear_activity_indicators(s) ==
    [s EXCEPT !.has_new_output = FALSE]

\* self.ssh_process.is_some()
is_connected(s) == s.ssh_process # NoProcess

\* The characters of the host names.
NameChars ==
    [ host1 |-> <<"h", "o", "s", "t", "1">>,
      host2 |-> <<"h", "o", "s", "t", "2">> ]

DigitChars == <<"0", "1", "2", "3", "4", "5", "6", "7", "8", "9">>

RECURSIVE to_string(_)
\* Display of a usize: its decimal digits.
to_string(n) ==
    IF n < 10 THEN <<DigitChars[n + 1]>>
    ELSE to_string(n \div 10) \o <<DigitChars[(n % 10) + 1]>>

\* format!("[{}:{}{}]", id, name, indicators)
FormatTab(id, name, indicators) ==
    <<"[">> \o to_string(id) \o <<":">> \o NameChars[name] \o indicators
        \o <<"]">>

\* tab_display_name with the error mark pushed first.
tab_display_name_ErrorFirst(s) ==
    FormatTab(s.id, s.host.name,
              (IF s.has_error THEN <<"!">> ELSE <<>>)
                  \o (IF s.has_new_output THEN <<"*">> ELSE <<>>)
                  \o (IF s.has_background_activity THEN <<"@">> ELSE <<>>))

tab_display_name(s) ==
    LET pushed1 == IF s.has_new_output THEN <<"*">> ELSE <<>>
        pushed2 == IF s.has_error THEN Append(pushed1, "!") ELSE pushed1
        indicators == IF s.has_background_activity
                      THEN Append(pushed2, "@") ELSE pushed2
    IN  IF indicators = <<>>
        THEN <<"[">> \o to_string(s.id) \o <<":">> \o NameChars[s.host.name]
                 \o <<"]">>
        ELSE FormatTab(s.id, s.host.name, indicators)

(***************************************************************************)
(* TabManager                                                              *)
(***************************************************************************)
Manager ==
    [ sessions |-> sessions,
      current_session_index |-> current_session_index,
      next_session_id |-> next_session_id ]

TabManager_new ==
    [ sessions |-> <<>>,
      current_session_index |-> 0,
      next_session_id |-> 1 ]

\* Vec::swap_remove(i): the last element takes the place of the removed one.
Remove_Swap(seq, i) ==
    [k \in 1..(Len(seq) - 1) |-> IF k = i + 1 THEN seq[Len(seq)] ELSE seq[k]]

\* Vec::remove(i) with a 0-based i < len.
Remove(seq, i) ==
    [k \in 1..(Len(seq) - 1) |-> IF k <= i THEN seq[k] ELSE seq[k + 1]]

\* add_session with the limit tested by > instead of >=.
add_session_OffByOne(m, host) ==
    IF Len(m.sessions) > MAX_SESSIONS
    THEN [m |-> m, ok |-> FALSE, val |-> 0]
    ELSE LET session_id == m.next_session_id
             pushed == Append(m.sessions, Session_new(session_id, host))
         IN  [m |-> [ sessions |-> pushed,
                      current_session_index |-> Len(pushed) - 1,
                      next_session_id |-> m.next_session_id + 1 ],
              ok |-> TRUE, val |-> session_id]

\* add_session that leaves the active tab where it was.
add_session_KeepsActive(m, host) ==
    IF Len(m.sessions) >= MAX_SESSIONS
    THEN [m |-> m, ok |-> FALSE, val |-> 0]
    ELSE LET session_id == m.next_session_id
             pushed == Append(m.sessions, Session_new(session_id, host))
         IN  [m |-> [ sessions |-> pushed,
                      current_session_index |-> m.current_session_index,
                      next_session_id |-> m.next_session_id + 1 ],
              ok |-> TRUE, val |-> session_id]

\* add_session that takes the session id before it tests the limit.
add_session_CountsRejected(m, host) ==
    IF Len(m.sessions) >= MAX_SESSIONS
    THEN [m |-> [m EXCEPT !.next_session_id = @ + 1], ok |-> FALSE, val |-> 0]
    ELSE LET session_id == m.next_session_id
             pushed == Append(m.sessions, Session_new(session_id, host))
         IN  [m |-> [ sessions |-> pushed,
                      current_session_index |-> Len(pushed) - 1,
                      next_session_id |-> m.next_session_id + 1 ],
              ok |-> TRUE, val |-> session_id]

\* add_session that numbers the new session by its position in the registry.
add_session_IdFromPosition(m, host) ==
    IF Len(m.sessions) >= MAX_SESSIONS
    THEN [m |-> m, ok |-> FALSE, val |-> 0]
    ELSE LET session_id == Len(m.sessions) + 1
             pushed == Append(m.sessions, Session_new(session_id, host))
         IN  [m |-> [ sessions |-> pushed,
                      current_session_index |-> Len(pushed) - 1,
                      next_session_id |-> m.next_session_id + 1 ],
              ok |-> TRUE, val |-> session_id]

\* Result<usize>: ok with the new session id, or the capacity error.
add_session(m, host) ==
    IF Len(m.sessions) >= MAX_SESSIONS
    THEN [m |-> m, ok |-> FALSE, val |-> 0]
    ELSE LET session_id == m.next_session_id
             pushed == Append(m.sessions, Session_new(session_id, host))
         IN  [m |-> [ sessions |-> pushed,
                      current_session_index |-> Len(pushed) - 1,
                      next_session_id |-> m.next_session_id + 1 ],
              ok |-> TRUE, val |-> session_id]

\* switch_to_session that reads its argument as a 0-based index.
switch_to_session_ZeroBased(m, one_based_index) ==
    IF one_based_index >= Len(m.sessions)
    THEN [m |-> m, ok |-> FALSE, val |-> 0]
    ELSE [m |-> [m EXCEPT !.current_session_index = one_based_index],
          ok |-> TRUE, val |-> 0]

switch_to_session(m, one_based_index) ==
    IF one_based_index = 0 \/ one_based_index > Len(m.sessions)
    THEN [m |-> m, ok |-> FALSE, val |-> 0]
    ELSE [m |-> [m EXCEPT !.current_session_index = one_based_index - 1],
          ok |-> TRUE, val |-> 0]

\* Vec::get_mut(session_index) is Some exactly for session_index < len.
InRange(m, session_index) == session_index < Len(m.sessions)

\* The sessions with the one at 0-based session_index replaced by s.
WithSession(m, session_index, s) ==
    [m EXCEPT !.sessions[session_index + 1] = s]

\* Returns ().
mark_session_activity(m, session_index, activity_type) ==
    IF InRange(m, session_index)
    THEN LET session == m.sessions[session_index + 1]
         IN  CASE activity_type = "output" ->
                    [m |-> WithSession(m, session_index, mark_new_output(session)),
                     ok |-> TRUE, val |-> 0]
               [] activity_type = "error" ->
                    [m |-> WithSession(m, session_index, mark_error(session)),
                     ok |-> TRUE, val |-> 0]
               [] activity_type = "background" ->
                    [m |-> WithSession(m, session_index,
                                       mark_background_activity(session)),
                     ok |-> TRUE, val |-> 0]
               [] OTHER -> [m |-> m, ok |-> TRUE, val |-> 0]
    ELSE [m |-> m, ok |-> TRUE, val |-> 0]

switch_to_session_and_clear_activity(m, one_based_index) ==
    LET r == switch_to_session(m, one_based_index)
    IN  IF r.ok
        THEN IF InRange(r.m, r.m.current_session_index)
             THEN [m |-> WithSession(r.m, r.m.current_session_index,
                        clear_activity_indicators(
                            r.m.sessions[r.m.current_session_index + 1])),
                   ok |-> TRUE, val |-> 0]
             ELSE [m |-> r.m, ok |-> TRUE, val |-> 0]
        ELSE [m |-> r.m, ok |-> FALSE, val |-> 0]

\* disconnect_session that disconnects the active tab, whatever the index.
disconnect_session_Current(m, session_index) ==
    IF InRange(m, session_index)
    THEN [m |-> WithSession(m, m.current_session_index,
                   [m.sessions[m.current_session_index + 1] EXCEPT
                        !.status = "Disconnected",
                        !.ssh_process = NoProcess,
                        !.has_error = TRUE]),
          ok |-> TRUE, val |-> 0]
    ELSE [m |-> m, ok |-> FALSE, val |-> 0]

disconnect_session(m, session_index) ==
    IF InRange(m, session_index)
    THEN [m |-> WithSession(m, session_index,
                   [m.sessions[session_index + 1] EXCEPT
                        !.status = "Disconnected",
                        !.ssh_process = NoProcess,
                        !.has_error = TRUE]),
          ok |-> TRUE, val |-> 0]
    ELSE [m |-> m, ok |-> FALSE, val |-> 0]

rename_session(m, session_index, new_name) ==
    IF InRange(m, session_index)
    THEN [m |-> WithSession(m, session_index,
                   [m.sessions[session_index + 1] EXCEPT !.host.name = new_name]),
          ok |-> TRUE, val |-> 0]
    ELSE [m |-> m, ok |-> FALSE, val |-> 0]

\* AdjustIndex without the move to the last session.
AdjustIndex_NoClamp(removed, current, session_index) ==
    IF Len(removed) = 0 THEN 0
    ELSE IF current > session_index THEN current - 1
    ELSE current

\* AdjustIndex without the shift down.
AdjustIndex_NoShift(removed, current, session_index) ==
    IF Len(removed) = 0 THEN 0
    ELSE IF current >= Len(removed) THEN Len(removed) - 1
    ELSE current

\* AdjustIndex that shifts down when the active tab itself was removed.
AdjustIndex_ShiftAtActive(removed, current, session_index) ==
    IF Len(removed) = 0 THEN 0
    ELSE IF current >= Len(removed) THEN Len(removed) - 1
    ELSE IF current >= session_index /\ current > 0 THEN current - 1
    ELSE current

\* The active index after the session at session_index was removed;
\* removed is the sequence after the removal.
AdjustIndex(removed, current, session_index) ==
    IF Len(removed) = 0 THEN 0
    ELSE IF current >= Len(removed) THEN Len(removed) - 1
    ELSE IF current > session_index THEN current - 1
    ELSE current

\* close_session with the index tested by > instead of >=.
close_session_OffByOne(m, session_index) ==
    IF session_index > Len(m.sessions) \/ Len(m.sessions) = 0
    THEN [m |-> m, ok |-> FALSE, val |-> 0]
    ELSE LET removed == Remove(m.sessions, session_index)
         IN  [m |-> [m EXCEPT
                        !.sessions = removed,
                        !.current_session_index =
                            AdjustIndex(removed, m.current_session_index,
                                        session_index)],
              ok |-> TRUE, val |-> 0]

close_session(m, session_index) ==
    IF session_index >= Len(m.sessions)
    THEN [m |-> m, ok |-> FALSE, val |-> 0]
    ELSE LET removed == Remove(m.sessions, session_index)
         IN  [m |-> [m EXCEPT
                        !.sessions = removed,
                        !.current_session_index =
                            AdjustIndex(removed, m.current_session_index,
                                        session_index)],
              ok |-> TRUE, val |-> 0]

\* The string one session contributes to the tab bar; index is 0-based.
TabLabel(m, index) ==
    LET display == tab_display_name(m.sessions[index + 1])
    IN  IF index = m.current_session_index
        THEN <<"▶">> \o display
        ELSE display

RECURSIVE collect(_)
\* Iterator::collect::<String>: the strings joined in order.
collect(strings) ==
    IF strings = <<>> THEN <<>>
    ELSE Head(strings) \o collect(Tail(strings))

\* tab_bar_display that shows at most 10 tabs, the window centred on the
\* current tab and clamped to the registry.
tab_bar_display_Windowed(m) ==
    LET total == Len(m.sessions)
        ideal == IF m.current_session_index > 5
                 THEN m.current_session_index - 5 ELSE 0
        start == IF total <= 10 THEN 0
                 ELSE IF ideal > total - 10 THEN total - 10 ELSE ideal
        shown == IF total <= 10 THEN total ELSE 10
    IN  collect([k \in 1..shown |-> TabLabel(m, start + k - 1)])

tab_bar_display(m) ==
    IF m.sessions = <<>>
    THEN <<>>
    ELSE collect([k \in 1..Len(m.sessions) |-> TabLabel(m, k - 1)])

(***************************************************************************)
(* App: the Ctrl+1, Ctrl+2, Ctrl+3 arms of on_key_press_ctrl.              *)
(***************************************************************************)
CtrlDigits == {1, 2, 3}

on_key_press_ctrl_digit(m, digit) == switch_to_session(m, digit)

(***************************************************************************)
(* App: the host table, its selection and the feedback line.  An Option is *)
(* a sequence of at most one element; the message formatted from a pattern *)
(* is the pattern with its argument.                                       *)
(***************************************************************************)
\* tui_input::Input: the text and the position of the cursor in it.
Input_default == [value |-> <<>>, cursor |-> 0]
Input_from(value) == [value |-> value, cursor |-> Len(value)]

\* App::new: hosts is the filtered view of the Searchable and vec all of its
\* hosts (the same with the empty search); the first row selected
\* (TableState::selected() is an Option<usize>), no feedback, no form, Normal
\* focus.  config holds the three settings the key handlers read.
App_new(hosts) ==
    [ hosts |-> hosts,
      selected |-> <<0>>,
      feedback_message |-> <<>>,
      is_feedback_error |-> FALSE,
      feedback_timeout |-> <<>>,
      vec |-> hosts,
      search |-> Input_default,
      config |-> [ command_template_on_session_start |-> <<>>,
                   command_template_on_session_end |-> <<>>,
                   exit_after_ssh_session_ends |-> FALSE ],
      add_host_form |-> <<>>,
      form_state |-> "Hidden",
      is_edit_mode |-> FALSE,
      editing_host_index |-> <<>>,
      confirm_message |-> <<>>,
      confirm_action |-> <<>>,
      focus_state |-> "Normal",
      last_key_time |-> <<>>,
      pending_g |-> FALSE ]

set_feedback_message(a, message, is_error) ==
    [a EXCEPT !.feedback_message = <<message>>,
              !.is_feedback_error = is_error,
              !.feedback_timeout = <<"now">>]

\* The App and the TabManager after open_new_session.  The Err of add_session
\* carries "Maximum number of sessions ({}) reached" with MAX_SESSIONS.
open_new_session(a, m) ==
    LET selected == IF a.selected = <<>> THEN 0 ELSE a.selected[1]
    IN  IF selected >= Len(a.hosts)
        THEN [a |-> set_feedback_message(a,
                        [text |-> "No host selected for new session",
                         arg |-> 0], TRUE),
              m |-> m]
        ELSE LET r == add_session(m, a.hosts[selected + 1])
             IN  IF r.ok
                 THEN [a |-> set_feedback_message(a,
                                [text |-> "New session {} created",
                                 arg |-> r.val], FALSE),
                       m |-> r.m]
                 ELSE [a |-> set_feedback_message(a,
                                [text |-> "Error: {}", arg |-> MAX_SESSIONS],
                                TRUE),
                       m |-> r.m]

(***************************************************************************)
(* Text: a String or a byte slice is a sequence of one-character strings.  *)
(***************************************************************************)
\* The upper-case letters of the texts used here and their lower case.
UpperToLower == [A |-> "a", B |-> "b", S |-> "s", H |-> "h"]

\* char::to_lowercase on the characters used here.
LowerChar(c) == IF c \in DOMAIN UpperToLower THEN UpperToLower[c] ELSE c

\* str::to_lowercase
to_lowercase(str) == [k \in 1..Len(str) |-> LowerChar(str[k])]

\* str::contains(needle): needle occurs in str as a contiguous substring.
str_contains(str, needle) ==
    \E off \in 0..(Len(str) - Len(needle)) :
        SubSeq(str, off + 1, off + Len(needle)) = needle

(***************************************************************************)
(* Host: the entry of the ssh config that a command template is run for.   *)
(* Every String is a sequence of characters, every Option<String> a        *)
(* sequence of at most one String.                                         *)
(***************************************************************************)
\* allowed_chars of validate_safe_for_command.
AllowedChars ==
    { "a", "b", "c", "d", "e", "f", "g", "h", "i", "j", "k", "l", "m",
      "n", "o", "p", "q", "r", "s", "t", "u", "v", "w", "x", "y", "z",
      "A", "B", "C", "D", "E", "F", "G", "H", "I", "J", "K", "L", "M",
      "N", "O", "P", "Q", "R", "S", "T", "U", "V", "W", "X", "Y", "Z",
      "0", "1", "2", "3", "4", "5", "6", "7", "8", "9",
      ".", "-", "_", ":", "/", "@", "%", "+", "=", " ",
      "," }

\* Result<()>: Ok, or Err naming the first character outside the allowlist.
validate_safe_for_command(value) ==
    LET unsafe == SelectSeq(value, LAMBDA c : c \notin AllowedChars)
    IN  IF unsafe # <<>>
        THEN [ok |-> FALSE, unsafe_char |-> Head(unsafe)]
        ELSE [ok |-> TRUE, unsafe_char |-> ""]

\* The value a Handlebars expression {{field}} reads from the serialized
\* Host: the field's text, nothing for None or for an unknown name.
FieldValue(host, field) ==
    IF field = <<"n", "a", "m", "e">> THEN host.name
    ELSE IF field = <<"a", "l", "i", "a", "s", "e", "s">> THEN host.aliases
    ELSE IF field = <<"d", "e", "s", "t", "i", "n", "a", "t", "i", "o", "n">>
         THEN host.destination
    ELSE IF field = <<"u", "s", "e", "r">>
         THEN (IF host.user = <<>> THEN <<>> ELSE host.user[1])
    ELSE IF field = <<"p", "o", "r", "t">>
         THEN (IF host.port = <<>> THEN <<>> ELSE host.port[1])
    ELSE IF field = <<"p", "r", "o", "x", "y", "_",
                      "c", "o", "m", "m", "a", "n", "d">>
         THEN (IF host.proxy_command = <<>> THEN <<>>
               ELSE host.proxy_command[1])
    ELSE <<>>

\* Handlebars' default escaping of an expression's value, on the characters
\* used here: "=" becomes an entity, "&" becomes "&amp;".
EscapeChar(c) ==
    IF c = "=" THEN <<"&", "#", "x", "3", "D", ";">>
    ELSE IF c = "&" THEN <<"&", "a", "m", "p", ";">>
    ELSE <<c>>

RECURSIVE html_escape(_)
html_escape(value) ==
    IF value = <<>> THEN <<>>
    ELSE EscapeChar(Head(value)) \o html_escape(Tail(value))

\* The position of the first "}}" at or after k, 0 when there is none.
RECURSIVE CloseAt(_, _)
CloseAt(pattern, k) ==
    IF k >= Len(pattern) THEN 0
    ELSE IF pattern[k] = "}" /\ pattern[k + 1] = "}" THEN k
    ELSE CloseAt(pattern, k + 1)

\* Handlebars::render_template from position k on: text is copied, {{field}}
\* is replaced by the escaped value of the field.  An expression that is not
\* closed is a template error.
RECURSIVE RenderFrom(_, _, _)
RenderFrom(pattern, host, k) ==
    IF k > Len(pattern) THEN [ok |-> TRUE, text |-> <<>>]
    ELSE IF k < Len(pattern) /\ pattern[k] = "{" /\ pattern[k + 1] = "{"
    THEN LET close == CloseAt(pattern, k + 2)
         IN  IF close = 0
             THEN [ok |-> FALSE, text |-> <<>>]
             ELSE LET rest == RenderFrom(pattern, host, close + 2)
                      value == FieldValue(host,
                                          SubSeq(pattern, k + 2, close - 1))
                  IN  [ok |-> rest.ok,
                       text |-> html_escape(value) \o rest.text]
    ELSE LET rest == RenderFrom(pattern, host, k + 1)
         IN  [ok |-> rest.ok, text |-> <<pattern[k]>> \o rest.text]

render_template(pattern, host) == RenderFrom(pattern, host, 1)

\* shlex::split on text without quotes, backslashes or comments: the words
\* between runs of spaces.  word is the word being read.
RECURSIVE SplitFrom(_, _)
SplitFrom(text, word) ==
    IF text = <<>>
    THEN (IF word = <<>> THEN <<>> ELSE <<word>>)
    ELSE IF Head(text) = " "
    THEN (IF word = <<>> THEN <<>> ELSE <<word>>) \o SplitFrom(Tail(text), <<>>)
    ELSE SplitFrom(Tail(text), Append(word, Head(text)))

shlex_split(text) == SplitFrom(text, <<>>)

\* What Command::spawn and wait can give: the program cannot be started, it
\* exits with success, or it exits with failure (then the build for tests
\* returns Err and the other build exits the whole process).
SpawnOutcomes == {"spawn_err", "success", "failure_err", "failure_exit"}

\* The first Err among the validations, in the order the code makes them.
FirstInvalid(values) ==
    LET results == [k \in 1..Len(values) |->
                        validate_safe_for_command(values[k])]
        failed == SelectSeq(results, LAMBDA r : ~r.ok)
    IN  IF failed = <<>> THEN <<>> ELSE <<Head(failed)>>

\* The call from the rendering on: validation has passed.
RenderAndRun(host, pattern, outcome) ==
    LET rendered == render_template(pattern, host)
        args == shlex_split(rendered.text)
    IN  IF ~rendered.ok
        THEN [ok |-> FALSE, err |-> "render", rendered |-> <<>>,
              spawned |-> <<>>]
        ELSE IF args = <<>>
        THEN [ok |-> FALSE, err |-> "Failed to get command",
              rendered |-> <<rendered.text>>, spawned |-> <<>>]
        ELSE IF outcome = "spawn_err"
        THEN [ok |-> FALSE, err |-> "spawn",
              rendered |-> <<rendered.text>>, spawned |-> <<>>]
        ELSE [ok |-> outcome = "success",
              err |-> IF outcome = "success" THEN ""
                      ELSE IF outcome = "failure_err"
                           THEN "Command exited with non-zero status"
                           ELSE "process::exit",
              rendered |-> <<rendered.text>>, spawned |-> <<args>>]

\* Does the template hold the expression {{field}}?
References(pattern, field) ==
    \E off \in 0..(Len(pattern) - Len(field) - 4) :
        SubSeq(pattern, off + 1, off + Len(field) + 4)
            = <<"{", "{">> \o field \o <<"}", "}">>

\* run_command_template that validates only the fields the template
\* references.
run_command_template_ReferencedOnly(host, pattern, outcome) ==
    LET Checked(field, value) ==
            IF References(pattern, field) THEN value ELSE <<>>
        invalid == FirstInvalid(
            <<Checked(<<"n", "a", "m", "e">>, host.name)>>
            \o Checked(<<"u", "s", "e", "r">>, host.user)
            \o <<Checked(<<"d", "e", "s", "t", "i", "n", "a", "t", "i", "o",
                           "n">>, host.destination)>>
            \o Checked(<<"p", "o", "r", "t">>, host.port)
            \o Checked(<<"p", "r", "o", "x", "y", "_",
                         "c", "o", "m", "m", "a", "n", "d">>,
                       host.proxy_command)
            \o <<Checked(<<"a", "l", "i", "a", "s", "e", "s">>,
                         host.aliases)>>)
    IN  IF invalid # <<>>
        THEN [ok |-> FALSE, err |-> "dangerous characters",
              rendered |-> <<>>, spawned |-> <<>>]
        ELSE RenderAndRun(host, pattern, outcome)

\* Result<()> of run_command_template with what it rendered and what it
\* spawned, both None when it returned before.  The values validated are the
\* name, the user if any, the destination, the port if any, the proxy
\* command if any and the aliases, in this order.
run_command_template(host, pattern, outcome) ==
    LET invalid == FirstInvalid(<<host.name>> \o host.user
                                    \o <<host.destination>> \o host.port
                                    \o host.proxy_command \o <<host.aliases>>)
    IN  IF invalid # <<>>
        THEN [ok |-> FALSE, err |-> "dangerous characters",
              rendered |-> <<>>, spawned |-> <<>>]
        ELSE RenderAndRun(host, pattern, outcome)

(***************************************************************************)
(* App: one turn of the event loop of run for a key press.  A key is its   *)
(* code and whether Ctrl is held; a text Input is its value and its cursor.*)
(* What a handler can do depends on files and processes outside the        *)
(* program, so each handler gives the set of its possible results: the App *)
(* and the TabManager afterwards, the AppKeyAction returned ("Err" when an *)
(* error is propagated with ?) and the commands it executed.               *)
(***************************************************************************)
PAGE_SIZE == 21
\* AddHostForm.field_count
FieldCount == 4

\* The characters typed ('1' is a key that no mode names), the keys that
\* are no character and the characters typed with Ctrl ('x': no shortcut).
Chars == {"g", "n", "e", "d", "1"}
SpecialKeys ==
    { "Enter", "Esc", "Tab", "BackTab", "Down", "Up", "PageDown", "PageUp" }
CtrlChars == {"c", "f", "1", "x", "g"}

Keys ==
    { [code |-> c, ctrl |-> FALSE] : c \in Chars \cup SpecialKeys }
        \cup { [code |-> c, ctrl |-> TRUE] : c \in CtrlChars }

\* tui_input's handling of a key event: a character without Ctrl is inserted
\* at the cursor, Backspace deletes the character before it, Home, End and
\* Ctrl+F move it; the other keys of the model change nothing.
Input_handle_event(input, key) ==
    IF ~key.ctrl /\ key.code \in Chars
    THEN [ value |-> SubSeq(input.value, 1, input.cursor) \o <<key.code>>
                       \o SubSeq(input.value, input.cursor + 1,
                                 Len(input.value)),
           cursor |-> input.cursor + 1 ]
    ELSE IF ~key.ctrl /\ key.code = "Backspace" /\ input.cursor > 0
    THEN [ value |-> SubSeq(input.value, 1, input.cursor - 1)
                       \o SubSeq(input.value, input.cursor + 1,
                                 Len(input.value)),
           cursor |-> input.cursor - 1 ]
    ELSE IF ~key.ctrl /\ key.code = "Home" THEN [input EXCEPT !.cursor = 0]
    ELSE IF ~key.ctrl /\ key.code = "End"
    THEN [input EXCEPT !.cursor = Len(input.value)]
    ELSE IF key.ctrl /\ key.code = "f" /\ input.cursor < Len(input.value)
    THEN [input EXCEPT !.cursor = input.cursor + 1]
    ELSE input

RECURSIVE fuzzy_match(_, _)
\* SkimMatcherV2::fuzzy_match(text, pattern).is_some(): the characters of
\* the pattern occur in the text in order.  The texts matched here are in
\* lower case, so a character matches when it is the same character.
fuzzy_match(text, pattern) ==
    IF pattern = <<>> THEN TRUE
    ELSE IF text = <<>> THEN FALSE
    ELSE IF Head(text) = Head(pattern)
         THEN fuzzy_match(Tail(text), Tail(pattern))
         ELSE fuzzy_match(Tail(text), pattern)

\* The predicate App::new gives to the Searchable.
HostMatches(host, search_value) ==
    \/ search_value = <<>>
    \/ fuzzy_match(host.name, search_value)
    \/ fuzzy_match(host.destination, search_value)
    \/ fuzzy_match(host.aliases, search_value)

\* Searchable::search
Searchable_search(a, value) ==
    [a EXCEPT !.hosts =
        IF value = <<>> THEN a.vec
        ELSE SelectSeq(a.vec, LAMBDA host : HostMatches(host, value))]

\* table_state.selected().unwrap_or(0)
SelectedOrZero(a) == IF a.selected = <<>> THEN 0 ELSE a.selected[1]

saturating_sub(x, y) == IF x > y THEN x - y ELSE 0

\* App::next
next(a) ==
    LET i == IF a.selected = <<>> THEN 0
             ELSE IF a.hosts = <<>> \/ a.selected[1] >= Len(a.hosts) - 1
                  THEN 0
                  ELSE a.selected[1] + 1
    IN  [a EXCEPT !.selected = <<i>>]

\* App::previous
previous(a) ==
    LET i == IF a.selected = <<>> THEN 0
             ELSE IF a.hosts = <<>> THEN 0
             ELSE IF a.selected[1] = 0 THEN Len(a.hosts) - 1
             ELSE a.selected[1] - 1
    IN  [a EXCEPT !.selected = <<i>>]

check_feedback_timeout(a, elapsed) ==
    IF a.feedback_timeout # <<>> /\ elapsed
    THEN [a EXCEPT !.feedback_message = <<>>, !.feedback_timeout = <<>>]
    ELSE a

AddHostForm_new ==
    [ host_name |-> Input_default,
      hostname |-> Input_default,
      username |-> Input_default,
      port |-> Input_default,
      active_field |-> 0 ]

populate_from_host(form, host) ==
    [form EXCEPT
        !.host_name = Input_from(host.name),
        !.hostname = Input_from(host.destination),
        !.username = IF host.user # <<>> THEN Input_from(host.user[1]) ELSE @,
        !.port = IF host.port # <<>> THEN Input_from(host.port[1]) ELSE @]

\* char::is_ascii_digit
Digits == {"0", "1", "2", "3", "4", "5", "6", "7", "8", "9"}

\* AddHostForm::handle_event: the port field takes digits (and keys with
\* Ctrl, and keys that are no character) only.
AddHostForm_handle_event(form, key) ==
    IF form.active_field = 3
    THEN IF key.code \in Chars \cup CtrlChars
         THEN IF key.code \in Digits \/ key.ctrl
              THEN [form EXCEPT !.port = Input_handle_event(@, key)]
              ELSE form
         ELSE [form EXCEPT !.port = Input_handle_event(@, key)]
    ELSE IF form.active_field = 0
    THEN [form EXCEPT !.host_name = Input_handle_event(@, key)]
    ELSE IF form.active_field = 1
    THEN [form EXCEPT !.hostname = Input_handle_event(@, key)]
    ELSE [form EXCEPT !.username = Input_handle_event(@, key)]

next_field(form) ==
    [form EXCEPT !.active_field = (form.active_field + 1) % FieldCount]

previous_field(form) ==
    [form EXCEPT !.active_field =
        IF form.active_field = 0 THEN FieldCount - 1
        ELSE form.active_field - 1]

\* No value of the model starts or ends with white space, so trim()
\* changes nothing.
is_valid_hostname(form) ==
    /\ form.hostname.value # <<>>
    /\ \A k \in 1..Len(form.hostname.value) :
           form.hostname.value[k] \notin {" ", "?", "*", "#"}

is_valid_username(form) ==
    \A k \in 1..Len(form.username.value) :
        form.username.value[k] \notin {" ", "/", ":", "\\"}

RECURSIVE DecimalValue(_)
\* The number that a sequence of digits writes.
DecimalValue(digits) ==
    IF digits = <<>> THEN 0
    ELSE 10 * DecimalValue(SubSeq(digits, 1, Len(digits) - 1))
           + (CHOOSE d \in 0..9 : ToString(d) = digits[Len(digits)])

\* str::parse::<u16>().is_ok(): digits after an optional '+', writing a
\* number of at most 16 bits.
parses_as_u16(str) ==
    LET digits == IF str # <<>> /\ Head(str) = "+" THEN Tail(str) ELSE str
    IN  /\ digits # <<>>
        /\ \A k \in 1..Len(digits) : digits[k] \in Digits
        /\ DecimalValue(digits) < 65536

is_valid(form) ==
    /\ form.host_name.value # <<>>
    /\ form.hostname.value # <<>>
    /\ is_valid_hostname(form)
    /\ is_valid_username(form)
    /\ form.port.value = <<>> \/ parses_as_u16(form.port.value)

validation_error(form) ==
    IF form.host_name.value = <<>> \/ form.hostname.value = <<>>
    THEN <<"Please fill out required fields">>
    ELSE IF ~is_valid_hostname(form) THEN <<"Invalid hostname format">>
    ELSE IF ~is_valid_username(form) THEN <<"Invalid username format">>
    ELSE IF form.port.value # <<>> /\ ~parses_as_u16(form.port.value)
    THEN <<"Port must be a valid number (0-65535)">>
    ELSE <<>>

\* The Host that the entry written by save_to_config parses to: the
\* sanitized values of the form (without white space they are the values).
FormHost(form) ==
    [ name |-> form.host_name.value,
      aliases |-> <<>>,
      user |-> IF form.username.value = <<>> THEN <<>>
               ELSE <<form.username.value>>,
      destination |-> form.hostname.value,
      port |-> IF form.port.value = <<>> THEN <<>> ELSE <<form.port.value>>,
      proxy_command |-> <<>> ]

\* A possible result of a handler.
Handled(a, m, action, executed) ==
    [a |-> a, m |-> m, action |-> action, executed |-> executed]

\* A result of a handler that may write the ssh config file, with the hosts
\* the file holds afterwards.
Written(r, file) ==
    [a |-> r.a, m |-> r.m, action |-> r.action, executed |-> r.executed,
     file |-> file]

\* Whether an operation on the ssh config file succeeds is the file
\* system's choice.
FsOutcomes == {"ok", "err"}

\* reload_hosts once the configuration files are parsed: a new Searchable of
\* the hosts read, filtered by the search text.
Searchable_new(a, vec) ==
    Searchable_search([a EXCEPT !.vec = vec], a.search.value)

\* AddHostForm::check_duplicate: Ok(false) for an invalid form, else whether
\* the file (the sequence of the hosts it holds) has a host of that name.
check_duplicate(file, form, fs) ==
    IF ~is_valid(form) THEN [ok |-> TRUE, val |-> FALSE]
    ELSE IF fs = "err" THEN [ok |-> FALSE, val |-> FALSE]
    ELSE [ok |-> TRUE,
          val |-> \E k \in 1..Len(file) :
                      file[k].name = form.host_name.value]

\* save_new_host: Result<()> and the file afterwards, an entry appended.
\* save_to_config and update_host_in_config refuse an invalid form.
save_new_host(a, file, fs) ==
    IF a.add_host_form = <<>> \/ ~is_valid(a.add_host_form[1]) \/ fs = "err"
    THEN [ok |-> FALSE, panic |-> FALSE, file |-> file]
    ELSE [ok |-> TRUE, panic |-> FALSE,
          file |-> Append(file, FormHost(a.add_host_form[1]))]

\* update_existing_host: the entry of the original host is replaced;
\* hosts[host_index] panics out of range.
update_existing_host(a, file, fs) ==
    IF a.add_host_form = <<>> \/ a.editing_host_index = <<>>
    THEN [ok |-> FALSE, panic |-> FALSE, file |-> file]
    ELSE IF a.editing_host_index[1] >= Len(a.hosts)
    THEN [ok |-> FALSE, panic |-> TRUE, file |-> file]
    ELSE IF ~is_valid(a.add_host_form[1]) \/ fs = "err"
    THEN [ok |-> FALSE, panic |-> FALSE, file |-> file]
    ELSE LET original_host == a.hosts[a.editing_host_index[1] + 1]
         IN  [ok |-> TRUE, panic |-> FALSE,
              file |-> [k \in 1..Len(file) |->
                           IF file[k].name = original_host.name
                           THEN FormHost(a.add_host_form[1])
                           ELSE file[k]]]

\* App::open_add_host_form
open_add_host_form(a) ==
    [a EXCEPT !.add_host_form = <<AddHostForm_new>>,
              !.form_state = "Active",
              !.feedback_message = <<>>,
              !.feedback_timeout = <<>>,
              !.is_edit_mode = FALSE,
              !.editing_host_index = <<>>]

\* App::open_edit_host_form
open_edit_host_form(a) ==
    LET selected == SelectedOrZero(a)
    IN  IF selected >= Len(a.hosts)
        THEN set_feedback_message(a,
                 [text |-> "No host selected for editing", arg |-> 0], TRUE)
        ELSE [a EXCEPT
                 !.add_host_form =
                     <<populate_from_host(AddHostForm_new,
                                          a.hosts[selected + 1])>>,
                 !.form_state = "Active",
                 !.feedback_message = <<>>,
                 !.feedback_timeout = <<>>,
                 !.is_edit_mode = TRUE,
                 !.editing_host_index = <<selected>>]

\* App::open_delete_host_confirmation: add_host_form is left as it is.
open_delete_host_confirmation(a) ==
    LET selected == SelectedOrZero(a)
    IN  IF selected >= Len(a.hosts)
        THEN set_feedback_message(a,
                 [text |-> "No host selected for deletion", arg |-> 0], TRUE)
        ELSE [a EXCEPT
                 !.confirm_message =
                     <<[text |-> "Delete host '{}'? (y/n)",
                        arg |-> a.hosts[selected + 1].name]>>,
                 !.confirm_action = <<"Delete">>,
                 !.form_state = "Confirming",
                 !.editing_host_index = <<selected>>]

\* App::delete_selected_host: the possible Results with the App and the
\* file afterwards.
delete_selected_host(a, file) ==
    IF a.editing_host_index = <<>> \/ a.editing_host_index[1] >= Len(a.hosts)
    THEN { [ok |-> FALSE, a |-> a, file |-> file] }
    ELSE LET host_index == a.editing_host_index[1]
             host == a.hosts[host_index + 1]
             deleted == SelectSeq(file, LAMBDA h : h.name # host.name)
             reloaded == Searchable_new(a, deleted)
             selected ==
                 IF host_index >= Len(reloaded.hosts) /\ reloaded.hosts # <<>>
                 THEN [reloaded EXCEPT
                          !.selected = <<Len(reloaded.hosts) - 1>>]
                 ELSE IF reloaded.hosts = <<>>
                 THEN [reloaded EXCEPT !.selected = <<0>>]
                 ELSE reloaded
         IN  { \* delete_host_from_config fails
               [ok |-> FALSE, a |-> a, file |-> file],
               \* the entry is deleted and reload_hosts fails
               [ok |-> FALSE, a |-> a, file |-> deleted],
               [ok |-> TRUE,
                a |-> set_feedback_message(selected,
                          [text |-> "Host '{}' deleted successfully",
                           arg |-> host.name], FALSE),
                file |-> deleted] }

\* "ssh -o LogLevel=ERROR -o StrictHostKeyChecking=accept-new -p "
SshCommandPrefix ==
    << "s", "s", "h", " ", "-", "o", " ",
       "L", "o", "g", "L", "e", "v", "e", "l", "=", "E", "R", "R", "O", "R",
       " ", "-", "o", " ",
       "S", "t", "r", "i", "c", "t", "H", "o", "s", "t", "K", "e", "y",
       "C", "h", "e", "c", "k", "i", "n", "g", "=",
       "a", "c", "c", "e", "p", "t", "-", "n", "e", "w", " ", "-", "p", " " >>

\* connect_to_ssh_host: the command line given to sh -c, formatted from the
\* port (22 by default), the user (root by default) and the destination.
\* Its Result is ignored by the caller.
connect_to_ssh_host(host) ==
    [ program |-> "sh -c",
      line |-> SshCommandPrefix
                 \o (IF host.port = <<>> THEN <<"2", "2">> ELSE host.port[1])
                 \o <<" ">>
                 \o (IF host.user = <<>> THEN <<"r", "o", "o", "t">>
                     ELSE host.user[1])
                 \o <<"@">> \o host.destination,
      host |-> host ]

\* The command a template spawned, if it got as far as spawning one.
TemplateCommands(host, run) ==
    IF run.spawned = <<>> THEN <<>>
    ELSE <<[program |-> "spawn", line |-> run.spawned[1], host |-> host]>>

\* A template that is configured runs with any outcome; none does not run.
TemplateRuns(host, template) ==
    IF template = <<>>
    THEN { [ok |-> TRUE, err |-> "", rendered |-> <<>>, spawned |-> <<>>] }
    ELSE { run_command_template(host, template[1], outcome) :
               outcome \in SpawnOutcomes }

\* App::connect_to_selected_host.  A template that fails ends the handler:
\* with the error, or with the whole process when the command reported a
\* failure status whose code is known ("Exit").
connect_to_selected_host(a, m) ==
    LET selected == SelectedOrZero(a)
    IN  IF selected >= Len(a.hosts)
        THEN { Handled(a, m, "Ok", <<>>) }
        ELSE
          LET host == a.hosts[selected + 1]
              Ended(run) == IF run.err = "process::exit" THEN "Exit" ELSE "Err"
              AfterSsh(before) ==
                  LET ssh_run == before \o <<connect_to_ssh_host(host)>>
                  IN  \* show_session_ended_screen or safe_setup_terminal fails
                      { Handled(a, m, "Err", ssh_run) } \cup
                      { IF ~end_run.ok
                        THEN Handled(a, m, Ended(end_run),
                                 ssh_run \o TemplateCommands(host, end_run))
                        ELSE Handled(a, m,
                                 IF a.config.exit_after_ssh_session_ends
                                 THEN "Stop" ELSE "Ok",
                                 ssh_run \o TemplateCommands(host, end_run)) :
                        end_run \in TemplateRuns(host,
                            a.config.command_template_on_session_end) }
          IN  \* show_connection_screen fails to draw
              { Handled(a, m, "Err", <<>>) } \cup UNION
                { IF ~start_run.ok
                  THEN { Handled(a, m, Ended(start_run),
                                 TemplateCommands(host, start_run)) }
                  ELSE AfterSsh(TemplateCommands(host, start_run)) :
                  start_run \in TemplateRuns(host,
                      a.config.command_template_on_session_start) }

\* table_state.select
select(a, index) == [a EXCEPT !.selected = index]

\* std::cmp::min
Min(x, y) == IF x < y THEN x ELSE y

\* The match of handle_normal_mode_keys on a key that returns neither Stop
\* nor Continue nor through connect_to_selected_host.  The key's modifiers
\* are not looked at.
NormalModeKey(a, key) ==
    IF key.code \in {"h", "l"} THEN a
    ELSE IF key.code \in {"G", "End"}
    THEN select(a, <<saturating_sub(Len(a.hosts), 1)>>)
    ELSE IF key.code = "g"
    THEN IF a.pending_g
         THEN [select(a, <<0>>) EXCEPT !.pending_g = FALSE,
                                       !.last_key_time = <<>>]
         ELSE [a EXCEPT !.pending_g = TRUE, !.last_key_time = <<"now">>]
    ELSE IF key.code = "/"
    THEN Searchable_search([a EXCEPT !.focus_state = "Search",
                                     !.search = Input_default], <<>>)
    ELSE IF key.code = "n" THEN open_add_host_form(a)
    ELSE IF key.code = "e" THEN open_edit_host_form(a)
    ELSE IF key.code = "d" THEN open_delete_host_confirmation(a)
    ELSE IF key.code \in {"j", "Down", "Tab"} THEN next(a)
    ELSE IF key.code \in {"k", "Up", "BackTab"} THEN previous(a)
    ELSE IF key.code = "Home" THEN select(a, <<0>>)
    ELSE IF key.code = "PageDown"
    THEN select(a, <<Min(SelectedOrZero(a) + PAGE_SIZE,
                         saturating_sub(Len(a.hosts), 1))>>)
    ELSE \* PageUp
         select(a, <<saturating_sub(SelectedOrZero(a), PAGE_SIZE)>>)

\* The keys that the match of handle_normal_mode_keys names, besides 'q'
\* and Enter.
NormalModeKeys ==
    { "h", "l", "G", "End", "g", "/", "n", "e", "d", "j", "Down", "Tab",
      "k", "Up", "BackTab", "Home", "PageDown", "PageUp" }

\* App::handle_normal_mode_keys.  Whether a second has passed since the
\* pending 'g' is the clock's choice.
handle_normal_mode_keys(a, m, key) ==
    UNION
      { LET timed == IF a.pending_g /\ a.last_key_time # <<>> /\ elapsed
                     THEN [a EXCEPT !.pending_g = FALSE,
                                    !.last_key_time = <<>>]
                     ELSE a
        IN  IF key.code = "q" THEN { Handled(timed, m, "Stop", <<>>) }
            ELSE IF key.code = "Enter"
            THEN connect_to_selected_host(timed, m)
            ELSE IF key.code \notin NormalModeKeys
            THEN { Handled(timed, m, "Continue", <<>>) }
            ELSE LET matched == NormalModeKey(timed, key)
                 IN  { Handled(IF key.code # "g"
                               THEN [matched EXCEPT !.pending_g = FALSE,
                                                    !.last_key_time = <<>>]
                               ELSE matched,
                               m, "Ok", <<>>) } :
        elapsed \in IF a.pending_g /\ a.last_key_time # <<>>
                    THEN BOOLEAN ELSE {FALSE} }

\* App::handle_search_mode_keys
handle_search_mode_keys(a, m, key) ==
    IF key.code = "Esc"
    THEN LET shown == Searchable_search(
                          [a EXCEPT !.focus_state = "Normal",
                                    !.search = Input_default], <<>>)
         IN  Handled(IF shown.hosts # <<>> THEN select(shown, <<0>>)
                     ELSE shown, m, "Ok", <<>>)
    ELSE IF key.code = "Enter"
    THEN LET normal == [a EXCEPT !.focus_state = "Normal"]
         IN  Handled(IF normal.hosts # <<>> THEN select(normal, <<0>>)
                     ELSE normal, m, "Ok", <<>>)
    ELSE Handled(a, m, "Continue", <<>>)

\* App::on_key_press_ctrl
on_key_press_ctrl(a, m, key) ==
    IF key.code = "c" THEN Handled(a, m, "Stop", <<>>)
    ELSE IF key.code = "j" THEN Handled(next(a), m, "Ok", <<>>)
    ELSE IF key.code \in {"k", "p"} THEN Handled(previous(a), m, "Ok", <<>>)
    ELSE IF key.code = "f"
    THEN Handled(Searchable_search([a EXCEPT !.focus_state = "Search",
                                             !.search = Input_default], <<>>),
                 m, "Ok", <<>>)
    ELSE IF key.code = "n"
    THEN LET r == open_new_session(a, m) IN Handled(r.a, r.m, "Ok", <<>>)
    ELSE IF key.code \in {"1", "2", "3"}
    THEN Handled(a, on_key_press_ctrl_digit(m,
                        CHOOSE d \in CtrlDigits : key.code = ToString(d)).m,
                 "Ok", <<>>)
    ELSE Handled(a, m, "Continue", <<>>)

\* App::on_key_press
on_key_press(a, m, key) ==
    LET action == on_key_press_ctrl(a, m, key)
    IN  IF key.ctrl /\ action.action # "Continue" THEN {action}
        ELSE IF a.focus_state = "Normal"
        THEN handle_normal_mode_keys(a, m, key)
        ELSE {handle_search_mode_keys(a, m, key)}

\* The save of on_form_key_press and what follows it: the form is closed and
\* the hosts are read again, or the error is shown.  confirming tells the
\* branch of the confirmation, which clears the confirmation as well.
SaveForm(a, m, file, confirming) ==
    LET Cleared(b) == IF confirming
                      THEN [b EXCEPT !.confirm_message = <<>>,
                                     !.confirm_action = <<>>]
                      ELSE b
    IN  { LET result == IF a.is_edit_mode
                        THEN update_existing_host(a, file, fs)
                        ELSE save_new_host(a, file, fs)
              closed == [set_feedback_message(a,
                             [text |-> IF a.is_edit_mode
                                       THEN "Host updated successfully!"
                                       ELSE "Host added successfully!",
                              arg |-> 0], FALSE)
                            EXCEPT !.form_state = "Hidden",
                                   !.add_host_form = <<>>,
                                   !.is_edit_mode = FALSE,
                                   !.editing_host_index = <<>>]
          IN  IF result.panic
              THEN Written(Handled(a, m, "Panic", <<>>), file)
              ELSE IF ~result.ok
              THEN Written(Handled(Cleared(set_feedback_message(a,
                                       [text |-> "Error: {}", arg |-> 0],
                                       TRUE)),
                                   m, "Ok", <<>>), file)
              ELSE IF reload = "err"
              THEN Written(Handled(Cleared(closed), m, "Err", <<>>),
                           result.file)
              ELSE Written(Handled(Searchable_new(Cleared(closed),
                                                  result.file),
                                   m, "Ok", <<>>), result.file) :
          fs \in FsOutcomes, reload \in FsOutcomes }

\* App::on_form_key_press
on_form_key_press(a, m, file, key) ==
    LET Unwritten(action) == { Written(Handled(a, m, action, <<>>), file) }
    IN
    IF a.form_state = "Confirming"
    THEN IF key.code \in {"Esc", "n", "N"}
         THEN { Written(Handled([a EXCEPT !.form_state = "Active",
                                          !.confirm_message = <<>>,
                                          !.confirm_action = <<>>],
                                m, "Ok", <<>>), file) }
         ELSE IF key.code \in {"Enter", "y", "Y"}
         THEN IF a.confirm_action = <<"Delete">>
              THEN { LET b == IF result.ok THEN result.a
                              ELSE set_feedback_message(result.a,
                                       [text |-> "Error deleting host: {}",
                                        arg |-> 0], TRUE)
                     IN  Written(Handled([b EXCEPT
                                            !.confirm_message = <<>>,
                                            !.confirm_action = <<>>,
                                            !.editing_host_index = <<>>],
                                         m, "Ok", <<>>), result.file) :
                     result \in delete_selected_host(
                                   [a EXCEPT !.form_state = "Hidden"], file) }
              ELSE SaveForm([a EXCEPT !.form_state = "Active"], m, file,
                            TRUE)
         ELSE Unwritten("Continue")
    ELSE IF key.code = "Esc" THEN Unwritten("Stop")
    ELSE IF key.code = "Enter"
    THEN IF a.add_host_form = <<>> THEN Unwritten("Continue")
         ELSE LET form == a.add_host_form[1]
              IN  IF ~is_valid(form)
                  THEN { Written(Handled(set_feedback_message(a,
                                     [text |-> IF validation_error(form) # <<>>
                                               THEN validation_error(form)[1]
                                               ELSE "Invalid form data",
                                      arg |-> 0], TRUE), m, "Ok", <<>>),
                                 file) }
                  ELSE UNION
                    { LET duplicate == check_duplicate(file, form, fs)
                      IN  IF ~duplicate.ok
                          THEN { Written(Handled(set_feedback_message(a,
                                     [text |-> "Error checking for duplicates: {}",
                                      arg |-> 0], TRUE), m, "Ok", <<>>),
                                   file) }
                          ELSE IF duplicate.val
                          THEN { Written(Handled(
                                   [a EXCEPT
                                      !.confirm_message =
                                          <<[text |-> "Host '{}' already exists. Overwrite?",
                                             arg |-> form.host_name.value]>>,
                                      !.confirm_action = <<"Overwrite">>,
                                      !.form_state = "Confirming"],
                                   m, "Confirm", <<>>), file) }
                          ELSE SaveForm(a, m, file, FALSE) :
                      fs \in FsOutcomes }
    ELSE IF key.code \in {"Tab", "BackTab"}
    THEN IF a.add_host_form = <<>> THEN Unwritten("Continue")
         ELSE { Written(Handled([a EXCEPT !.add_host_form =
                                    <<IF key.code = "Tab" THEN next_field(@[1])
                                      ELSE previous_field(@[1])>>],
                                m, "Ok", <<>>), file) }
    ELSE Unwritten("Continue")

\* The part of the loop of run after a handler that returned Continue: the
\* event goes to the search input or to the form.
HandleEvent(a, key) ==
    IF a.form_state = "Hidden"
    THEN IF a.focus_state = "Search" /\ key.code \notin {"Esc", "Enter"}
         THEN LET typed == [a EXCEPT !.search = Input_handle_event(@, key)]
                  searched == Searchable_search(typed, typed.search.value)
              IN  IF SelectedOrZero(searched) >= Len(searched.hosts)
                  THEN select(searched,
                              <<saturating_sub(Len(searched.hosts), 1)>>)
                  ELSE searched
         ELSE a
    ELSE IF a.form_state = "Active" /\ a.add_host_form # <<>>
    THEN [a EXCEPT !.add_host_form = <<AddHostForm_handle_event(@[1], key)>>]
    ELSE a

\* One turn of the loop of run for the press of a key: the feedback line is
\* cleared once its time has passed (the clock's choice), the handler of the
\* form state runs, and on Continue the event is handled further.  Stop
\* from the form handler closes the form; from on_key_press it ends the loop.
run_key_press(a0, m, file, key) ==
    UNION
      { LET a == check_feedback_timeout(a0, elapsed)
        IN  IF a.form_state = "Hidden"
            THEN { Written(IF r.action = "Continue"
                           THEN [r EXCEPT !.a = HandleEvent(r.a, key)]
                           ELSE r, file) : r \in on_key_press(a, m, key) }
            ELSE { IF r.action = "Stop"
                   THEN [r EXCEPT !.a = [r.a EXCEPT
                                            !.form_state = "Hidden",
                                            !.add_host_form = <<>>,
                                            !.confirm_message = <<>>,
                                            !.confirm_action = <<>>,
                                            !.is_edit_mode = FALSE,
                                            !.editing_host_index = <<>>],
                                  !.action = "Closed"]
                   ELSE IF r.action = "Continue"
                   THEN [r EXCEPT !.a = HandleEvent(r.a, key)]
                   ELSE r : r \in on_form_key_press(a, m, file, key) } :
        elapsed \in IF a0.feedback_timeout # <<>> THEN BOOLEAN ELSE {FALSE} }

(***************************************************************************)
(* vt100::Parser as TerminalBuffer uses it: a screen of ScreenRows rows of *)
(* ScreenCols cells and a cursor; no scrollback of its own.                *)
(***************************************************************************)
ScreenRows == 24
ScreenCols == 80

EmptyRow == [cells |-> <<>>, wrapped |-> FALSE]

\* Parser::new(80, 24, 0)
Parser_new ==
    [ rows |-> [k \in 1..ScreenRows |-> EmptyRow],
      row |-> 0,
      col |-> 0 ]

\* The cursor moves down one row; at the bottom row the screen scrolls up
\* and its top row is dropped.
LineFeed(p) ==
    IF p.row = ScreenRows - 1
    THEN [p EXCEPT !.rows = Append(Tail(p.rows), EmptyRow)]
    ELSE [p EXCEPT !.row = p.row + 1]

\* cells with c written at 0-based column col, blank cells filled with " ".
PutCell(cells, col, c) ==
    IF col < Len(cells) THEN [cells EXCEPT ![col + 1] = c]
    ELSE cells \o [k \in 1..(col - Len(cells)) |-> " "] \o <<c>>

\* One byte through the parser: line feed, carriage return, or a printable
\* character, which wraps to the next row past the last column.
ProcessByte(p, b) ==
    IF b = "\n" THEN LineFeed(p)
    ELSE IF b = "\r" THEN [p EXCEPT !.col = 0]
    ELSE LET q == IF p.col >= ScreenCols
                  THEN [LineFeed([p EXCEPT !.rows[p.row + 1].wrapped = TRUE])
                            EXCEPT !.col = 0]
                  ELSE p
         IN  [q EXCEPT !.rows[q.row + 1].cells = PutCell(@, q.col, b),
                       !.col = q.col + 1]

RECURSIVE Parser_process(_, _)
\* Parser::process(data): the bytes one after the other.  q is the parser
\* after the first byte, bound so that it is evaluated once.
Parser_process(p, data) ==
    IF data = <<>> THEN p
    ELSE CHOOSE r \in { Parser_process(q, Tail(data)) :
                            q \in {ProcessByte(p, Head(data))} } : TRUE

\* The number of the last row that holds text, 0 when the screen is blank.
LastTextRow(p) ==
    LET used == {k \in 1..ScreenRows : p.rows[k].cells # <<>>}
    IN  IF used = {} THEN 0 ELSE CHOOSE k \in used : \A j \in used : j <= k

RECURSIVE RowsToLines(_, _, _, _)
\* The lines of rows k..last: a wrapped row continues into the next one.
RowsToLines(p, k, last, line) ==
    IF k > last THEN <<>>
    ELSE LET text == line \o p.rows[k].cells
         IN  IF p.rows[k].wrapped /\ k < last
             THEN RowsToLines(p, k + 1, last, text)
             ELSE <<text>> \o RowsToLines(p, k + 1, last, <<>>)

\* screen().contents().lines(): the rows of the screen as text, without the
\* blank rows at the bottom.
ContentsLines(p) == RowsToLines(p, 1, LastTextRow(p), <<>>)

(***************************************************************************)
(* TerminalBuffer                                                          *)
(***************************************************************************)
\* last_viewed: Instant is written by new and mark_viewed and read nowhere;
\* it is left out.
TerminalBuffer_new(max_lines) ==
    [ parser |-> Parser_new,
      scrollback |-> <<>>,
      max_lines |-> max_lines,
      has_new_output |-> FALSE ]

\* push_back(line), then pop_front() if the length exceeds max_lines.
PushLine(scrollback, line, max_lines) ==
    LET pushed == Append(scrollback, line)
    IN  IF Len(pushed) > max_lines THEN Tail(pushed) ELSE pushed

\* The loop with the trim after it instead of inside it.
PushLines_TrimOnce(scrollback, lines, max_lines) ==
    LET pushed == scrollback \o lines
    IN  IF Len(pushed) > max_lines THEN Tail(pushed) ELSE pushed

RECURSIVE PushLines_PopBack(_, _, _)
\* The loop with pop_back() in place of pop_front().
PushLines_PopBack(scrollback, lines, max_lines) ==
    IF lines = <<>> THEN scrollback
    ELSE LET pushed == Append(scrollback, Head(lines))
         IN  PushLines_PopBack(
                 IF Len(pushed) > max_lines
                 THEN SubSeq(pushed, 1, Len(pushed) - 1) ELSE pushed,
                 Tail(lines), max_lines)

RECURSIVE PushLines(_, _, _)
\* The for loop of process_data over the lines of the screen contents.
PushLines(scrollback, lines, max_lines) ==
    IF lines = <<>> THEN scrollback
    ELSE PushLines(PushLine(scrollback, Head(lines), max_lines),
                   Tail(lines), max_lines)

\* The buffer t after process_data when its parser has become parser.
Processed(t, parser) ==
    [t EXCEPT !.parser = parser,
              !.has_new_output = TRUE,
              !.scrollback = PushLines(t.scrollback, ContentsLines(parser),
                                       t.max_lines)]

\* parser is bound so that it is evaluated once.
process_data(t, data) ==
    CHOOSE r \in { Processed(t, parser) :
                       parser \in {Parser_process(t.parser, data)} } : TRUE

TerminalBuffer_mark_viewed(t) == [t EXCEPT !.has_new_output = FALSE]

RECURSIVE SearchFrom(_, _, _)
\* The loop of search from 0-based line i on: (i, line) for each line whose
\* lower case contains the lower case of the query.
SearchFrom(scrollback, query, i) ==
    IF i >= Len(scrollback) THEN <<>>
    ELSE LET line == scrollback[i + 1]
             rest == SearchFrom(scrollback, query, i + 1)
         IN  IF str_contains(to_lowercase(line), to_lowercase(query))
             THEN <<[index |-> i, line |-> line]>> \o rest
             ELSE rest

\* search that compares the line and the query as they are.
search_CaseSensitive(t, query) ==
    SelectSeq([k \in 1..Len(t.scrollback) |->
                   [index |-> k - 1, line |-> t.scrollback[k]]],
              LAMBDA r : str_contains(r.line, query))

search(t, query) == SearchFrom(t.scrollback, query, 0)

(***************************************************************************)
(* SshSession (src/ui/session.rs).  An Option is a sequence of at most one *)
(* element.  The session's terminal field is the variable terminal; the    *)
(* processes the sessions spawn live in the record os.                     *)
(***************************************************************************)
None == <<>>
Some(x) == <<x>>

\* ConnectionState
ErrorFailedToStart == "Error(Failed to start SSH)"
ErrorMaxReconnect == "Error(Max reconnection attempts exceeded)"
ErrorStates == {ErrorFailedToStart, ErrorMaxReconnect}
ConnectionState ==
    {"Disconnected", "Connecting", "Connected", "Reconnecting"} \cup ErrorStates

\* ActivityIndicator
ActivityIndicator == {"None", "NewOutput", "Error", "BackgroundActivity"}

\* The chunk setup_data_channels sends: b"SSH session connected...\n"
Placeholder ==
    << "S", "S", "H", " ", "s", "e", "s", "s", "i", "o", "n", " ",
       "c", "o", "n", "n", "e", "c", "t", "e", "d", ".", ".", ".", "\n" >>

\* No process spawned yet.  spawned counts the processes spawned (the
\* n-th has pid n), running holds those that have not ended, killed those
\* kill() was called on, reconnect_connects the connect() calls reconnect
\* made, pty_output the chunks the processes wrote to their PTY.
Os_new ==
    [ spawned |-> 0, running |-> {}, killed |-> {}, reconnect_connects |-> 0,
      pty_output |-> <<>> ]

\* Child::kill
Kill(o, pid) ==
    [o EXCEPT !.running = @ \ {pid}, !.killed = @ \cup {pid}]

\* spawn_command returning Ok(child)
Spawn(o) ==
    [o EXCEPT !.spawned = @ + 1, !.running = @ \cup {o.spawned + 1}]

SshSession_new(max_reconnect_attempts) ==
    [ state |-> "Disconnected",
      activity |-> "None",
      pty_master |-> None,
      child_process |-> None,
      max_reconnect_attempts |-> max_reconnect_attempts,
      reconnect_attempts |-> 0,
      data_receiver |-> None,
      command_sender |-> None ]

\* The receiver holds the queue of the data channel; data_tx is dropped
\* when the method returns, and so is the receiving end of the command
\* channel.
setup_data_channels(s) ==
    IF s.pty_master # None
    THEN [s EXCEPT !.data_receiver = Some(<<Placeholder>>),
                   !.command_sender = Some([receiver_dropped |-> TRUE])]
    ELSE s

\* What the system can answer to connect: openpty fails, spawn_command
\* fails, or the process is spawned.
ConnectOutcomes == {"openpty_err", "spawn_err", "spawned"}

connect(s, o, outcome) ==
    LET s1 == [s EXCEPT !.state = "Connecting", !.activity = "None"]
    IN  IF outcome = "openpty_err"
        THEN [s |-> s1, os |-> o, ok |-> FALSE, err |-> "openpty"]
        ELSE IF outcome = "spawn_err"
        THEN [ s |-> [s1 EXCEPT !.state = ErrorFailedToStart,
                                !.activity = "Error"],
               os |-> o, ok |-> FALSE,
               err |-> "Failed to start SSH process" ]
        ELSE LET o2 == Spawn(o)
             IN  [ s |-> setup_data_channels(
                           [s1 EXCEPT !.child_process = Some(o2.spawned),
                                      !.pty_master = Some(o2.spawned),
                                      !.state = "Connected"]),
                   os |-> o2, ok |-> TRUE, err |-> "" ]

RECURSIVE Drain(_, _)
\* The while loop of process_pending_data: every queued chunk through the
\* terminal buffer, oldest first.
Drain(t, queue) ==
    IF queue = <<>> THEN t
    ELSE Drain(process_data(t, Head(queue)), Tail(queue))

RECURSIVE DrainedLines(_, _)
\* The lines that loop pushes onto the scrollback.
DrainedLines(t, queue) ==
    IF queue = <<>> THEN <<>>
    ELSE CHOOSE r \in
             { ContentsLines(t2.parser) \o DrainedLines(t2, Tail(queue)) :
                   t2 \in {process_data(t, Head(queue))} } : TRUE

\* process_pending_data that raises the indicator whenever there is a
\* receiver, whether a chunk was received or not.
process_pending_data_AlwaysMarks(s, t) ==
    IF s.data_receiver = None THEN [s |-> s, t |-> t]
    ELSE [ s |-> [s EXCEPT !.data_receiver = Some(<<>>),
                           !.activity = "NewOutput"],
           t |-> Drain(t, s.data_receiver[1]) ]

\* try_recv until the queue is empty; s is the session, t its terminal.
process_pending_data(s, t) ==
    IF s.data_receiver = None \/ s.data_receiver[1] = <<>>
    THEN [s |-> s, t |-> t]
    ELSE [ s |-> [s EXCEPT !.data_receiver = Some(<<>>),
                           !.activity = "NewOutput"],
           t |-> Drain(t, s.data_receiver[1]) ]

\* Sender::send fails when the receiving end of the channel is gone; without
\* a sender nothing is sent and Ok(()) is returned.
send_command(s) ==
    IF s.command_sender # None /\ s.command_sender[1].receiver_dropped
    THEN [ok |-> FALSE, err |-> "Failed to send command"]
    ELSE [ok |-> TRUE, err |-> ""]

is_active(s) == s.state \in {"Connected", "Connecting"}

is_process_running(s) == s.child_process # None

update_state(s) ==
    IF ~is_process_running(s) /\ is_active(s)
    THEN [s EXCEPT !.state = "Disconnected", !.activity = "Error"]
    ELSE s

\* disconnect that leaves the two channel ends in place.
disconnect_KeepsChannels(s, o) ==
    [ s |-> [s EXCEPT !.child_process = None, !.pty_master = None,
                      !.state = "Disconnected"],
      os |-> IF s.child_process # None THEN Kill(o, s.child_process[1]) ELSE o,
      ok |-> TRUE, err |-> "" ]

\* disconnect that also resets the activity indicator.
disconnect_ResetsActivity(s, o) ==
    [ s |-> [s EXCEPT !.child_process = None, !.pty_master = None,
                      !.data_receiver = None, !.command_sender = None,
                      !.state = "Disconnected", !.activity = "None"],
      os |-> IF s.child_process # None THEN Kill(o, s.child_process[1]) ELSE o,
      ok |-> TRUE, err |-> "" ]

disconnect(s, o) ==
    [ s |-> [s EXCEPT !.child_process = None, !.pty_master = None,
                      !.data_receiver = None, !.command_sender = None,
                      !.state = "Disconnected"],
      os |-> IF s.child_process # None THEN Kill(o, s.child_process[1]) ELSE o,
      ok |-> TRUE, err |-> "" ]

\* reconnect(s, o, outcome) after the limit test has let it through.
Reattempt(s, o, outcome) ==
    LET d == disconnect([s EXCEPT !.reconnect_attempts = @ + 1,
                                  !.state = "Reconnecting"], o)
    IN  connect(d.s, [d.os EXCEPT !.reconnect_connects = @ + 1], outcome)

\* The result of reconnect at the limit.
MaxExceeded(s, o) ==
    [ s |-> [s EXCEPT !.state = ErrorMaxReconnect], os |-> o,
      ok |-> FALSE, err |-> "Max reconnection attempts exceeded" ]

\* reconnect with > in place of >= in the limit test.
reconnect_OffByOne(s, o, outcome) ==
    IF s.reconnect_attempts > s.max_reconnect_attempts
    THEN MaxExceeded(s, o)
    ELSE Reattempt(s, o, outcome)

\* reconnect that tears the connection down before the limit test.
reconnect_TeardownFirst(s, o, outcome) ==
    LET d == disconnect(s, o)
    IN  IF s.reconnect_attempts >= s.max_reconnect_attempts
        THEN MaxExceeded(d.s, d.os)
        ELSE Reattempt(s, o, outcome)

reconnect(s, o, outcome) ==
    IF s.reconnect_attempts >= s.max_reconnect_attempts
    THEN MaxExceeded(s, o)
    ELSE Reattempt(s, o, outcome)

\* SshSession::mark_viewed; s is the session, t its terminal.
SshSession_mark_viewed(s, t) ==
    [ s |-> IF s.activity = "NewOutput" THEN [s EXCEPT !.activity = "None"]
            ELSE s,
      t |-> TerminalBuffer_mark_viewed(t) ]

(***************************************************************************)
(* State machine                                                           *)
(***************************************************************************)
\* The record kept of the last call: the method, its index argument (0 when
\* it has none), whether it returned true or Ok, and the active index and
\* the session count it was called with.
Call(op, index, r) ==
    [ op |-> op, index |-> index, ok |-> r.ok,
      index_before |-> current_session_index,
      count_before |-> Len(sessions) ]

\* The manager of the next state is r.m; no other object is touched.
Becomes(r) ==
    /\ sessions' = r.m.sessions
    /\ current_session_index' = r.m.current_session_index
    /\ next_session_id' = r.m.next_session_id
    /\ UNCHANGED <<termVars, sshVars, appVars>>

\* A TabManager just constructed.
TabInit ==
    /\ sessions = TabManager_new.sessions
    /\ current_session_index = TabManager_new.current_session_index
    /\ next_session_id = TabManager_new.next_session_id

\* A TerminalBuffer just constructed with the given max_lines.
TermInit(max_lines) ==
    /\ terminal = TerminalBuffer_new(max_lines)
    /\ fed = <<>>
    /\ appended = <<>>
    /\ found = <<>>

\* An SshSession just constructed with the default configuration.
SshInit ==
    /\ ssh = SshSession_new(DefaultMaxReconnect)
    /\ os = Os_new

\* An App with one host in its table, and no command run yet.
AppInit ==
    /\ app = App_new(<<TestHost>>)
    /\ template_run = NoRun
    /\ key_press = NoKey
    /\ config_file = <<TestHost>>

Init ==
    /\ TabInit
    /\ TermInit(DefaultMaxLines)
    /\ SshInit
    /\ AppInit
    /\ call = [ op |-> "new", index |-> 0, ok |-> TRUE,
                index_before |-> 0, count_before |-> 0 ]

\* usize arguments tried by the index-taking operations: every index of the
\* registry, 0-based or 1-based, and the next one past its end.
Indices == 0..(Len(sessions) + 1)

AddSession(max_id) ==
    /\ next_session_id <= max_id
    /\ LET r == add_session(Manager, TestHost)
       IN  /\ Becomes(r)
           /\ call' = Call("add_session", 0, r)

SwitchToSession ==
    \E n \in Indices :
        LET r == switch_to_session(Manager, n)
        IN  /\ Becomes(r)
            /\ call' = Call("switch_to_session", n, r)

SwitchToSessionAndClearActivity ==
    \E n \in Indices :
        LET r == switch_to_session_and_clear_activity(Manager, n)
        IN  /\ Becomes(r)
            /\ call' = Call("switch_to_session_and_clear_activity", n, r)

MarkSessionActivity ==
    \E i \in Indices, a \in ActivityTypes :
        LET r == mark_session_activity(Manager, i, a)
        IN  /\ Becomes(r)
            /\ call' = Call("mark_session_activity", i, r)

DisconnectSession ==
    \E i \in Indices :
        LET r == disconnect_session(Manager, i)
        IN  /\ Becomes(r)
            /\ call' = Call("disconnect_session", i, r)

RenameSession ==
    \E i \in Indices, new_name \in Names :
        LET r == rename_session(Manager, i, new_name)
        IN  /\ Becomes(r)
            /\ call' = Call("rename_session", i, r)

CloseSession ==
    \E i \in Indices :
        LET r == close_session(Manager, i)
        IN  /\ Becomes(r)
            /\ call' = Call("close_session", i, r)

OnKeyPressCtrl ==
    \E digit \in CtrlDigits :
        LET r == on_key_press_ctrl_digit(Manager, digit)
        IN  /\ Becomes(r)
            /\ call' = Call("on_key_press_ctrl", digit, r)

(***************************************************************************)
(* Spec: up to MaxSessionId tabs with every activity flag; the tabs keep   *)
(* the name they were opened with.                                         *)
(***************************************************************************)
Add == AddSession(MaxSessionId)

Next ==
    \/ Add
    \/ SwitchToSession
    \/ SwitchToSessionAndClearActivity
    \/ MarkSessionActivity
    \/ DisconnectSession
    \/ CloseSession
    \/ OnKeyPressCtrl

Spec == Init /\ [][Next]_vars

(***************************************************************************)
(* SpecNav: up to MaxNavId tabs that are opened, renamed, disconnected,    *)
(* switched to and closed; no activity is marked.                          *)
(***************************************************************************)
NavAdd == AddSession(MaxNavId)

NextNav ==
    \/ NavAdd
    \/ SwitchToSession
    \/ SwitchToSessionAndClearActivity
    \/ DisconnectSession
    \/ RenameSession
    \/ CloseSession
    \/ OnKeyPressCtrl

SpecNav == Init /\ [][NextNav]_vars

(***************************************************************************)
(* SpecCap: add_session and close_session alone, up to MAX_SESSIONS tabs.  *)
(***************************************************************************)
\* Sessions closed so far: ids issued minus sessions registered.
Closed == (next_session_id - 1) - Len(sessions)

CapAddSession ==
    LET r == add_session(Manager, TestHost)
    IN  /\ Becomes(r)
        /\ call' = Call("add_session", 0, r)

CapCloseSession ==
    \E i \in Indices :
        LET r == close_session(Manager, i)
        IN  /\ r.ok => Closed < MaxCloses
            /\ Becomes(r)
            /\ call' = Call("close_session", i, r)

NextCap ==
    \/ CapAddSession
    \/ CapCloseSession

SpecCap == Init /\ [][NextCap]_vars

(***************************************************************************)
(* SpecTerm: one TerminalBuffer constructed with a small max_lines, fed    *)
(* chunks of PTY output, marked viewed and searched.                       *)
(***************************************************************************)
\* The chunks given to process_data: "a\n", "Ab\r\n", "b" and a page of
\* line feeds, which scrolls the whole screen away.
Chunks ==
    { <<"a", "\n">>,
      <<"A", "b", "\r", "\n">>,
      <<"b">>,
      [k \in 1..ScreenRows |-> "\n"] }

\* The queries given to search: "", "a", "AB" and "b".
Queries == { <<>>, <<"a">>, <<"A", "B">>, <<"b">> }

InitTerm ==
    /\ TabInit
    /\ \E max_lines \in 0..MaxScrollback : TermInit(max_lines)
    /\ SshInit
    /\ AppInit
    /\ call = [op |-> "new", arg |-> <<>>]

ProcessData ==
    /\ Len(fed) < MaxFeeds
    /\ \E data \in Chunks :
          LET t == process_data(terminal, data)
          IN  /\ terminal' = t
              /\ fed' = Append(fed, data)
              /\ appended' = appended \o ContentsLines(t.parser)
              /\ call' = [op |-> "process_data", arg |-> data]
    /\ UNCHANGED <<tabVars, appVars, found, sshVars>>

MarkViewed ==
    /\ terminal' = TerminalBuffer_mark_viewed(terminal)
    /\ call' = [op |-> "mark_viewed", arg |-> <<>>]
    /\ UNCHANGED <<tabVars, appVars, fed, appended, found, sshVars>>

Search ==
    /\ \E query \in Queries :
          /\ found' = search(terminal, query)
          /\ call' = [op |-> "search", arg |-> query]
    /\ UNCHANGED <<tabVars, appVars, terminal, fed, appended, sshVars>>

NextTerm ==
    \/ ProcessData
    \/ MarkViewed
    \/ Search

SpecTerm == InitTerm /\ [][NextTerm]_vars

(***************************************************************************)
(* One SshSession and the processes it spawns.                             *)
(***************************************************************************)
InitSsh ==
    /\ TabInit
    /\ TermInit(DefaultMaxLines)
    /\ \E max_reconnect_attempts \in 0..MaxReconnect :
          ssh = SshSession_new(max_reconnect_attempts)
    /\ os = Os_new
    /\ AppInit
    /\ call = [op |-> "new", ok |-> TRUE, err |-> ""]

\* The record kept of a call on the session: the method, whether it
\* returned Ok, and the error it returned.
SshCall(op, r) == [op |-> op, ok |-> r.ok, err |-> r.err]

\* The session and the processes of the next state are those of r.
SshBecomes(r) ==
    /\ ssh' = r.s
    /\ os' = r.os
    /\ UNCHANGED <<tabVars, appVars, termVars>>

Connect ==
    /\ os.spawned < MaxSpawns
    /\ \E outcome \in ConnectOutcomes :
          LET r == connect(ssh, os, outcome)
          IN  SshBecomes(r) /\ call' = SshCall("connect", r)

Reconnect ==
    /\ \/ os.spawned < MaxSpawns
       \/ ssh.reconnect_attempts >= ssh.max_reconnect_attempts
    /\ \E outcome \in ConnectOutcomes :
          LET r == reconnect(ssh, os, outcome)
          IN  SshBecomes(r) /\ call' = SshCall("reconnect", r)

Disconnect ==
    LET r == disconnect(ssh, os)
    IN  /\ SshBecomes(r)
        /\ call' = SshCall("disconnect", r)

UpdateState ==
    /\ ssh' = update_state(ssh)
    /\ call' = [op |-> "update_state", ok |-> TRUE, err |-> ""]
    /\ UNCHANGED <<tabVars, appVars, termVars, os>>

ProcessPendingData ==
    LET r == process_pending_data(ssh, terminal)
        queue == IF ssh.data_receiver = None THEN <<>>
                 ELSE ssh.data_receiver[1]
    IN  /\ ssh' = r.s
        /\ terminal' = r.t
        /\ fed' = fed \o queue
        /\ appended' = appended \o DrainedLines(terminal, queue)
        /\ call' = [op |-> "process_pending_data", ok |-> TRUE, err |-> ""]
        /\ UNCHANGED <<tabVars, appVars, found, os>>

SshMarkViewed ==
    LET r == SshSession_mark_viewed(ssh, terminal)
    IN  /\ ssh' = r.s
        /\ terminal' = r.t
        /\ call' = [op |-> "mark_viewed", ok |-> TRUE, err |-> ""]
        /\ UNCHANGED <<tabVars, appVars, fed, appended, found, os>>

\* The system: a running ssh process ends by itself.
ChildExits ==
    /\ \E pid \in os.running : os' = [os EXCEPT !.running = @ \ {pid}]
    /\ call' = [op |-> "child_exits", ok |-> TRUE, err |-> ""]
    /\ UNCHANGED <<tabVars, appVars, termVars, ssh>>

NextSsh ==
    \/ Connect
    \/ Reconnect
    \/ Disconnect
    \/ UpdateState
    \/ ProcessPendingData
    \/ SshMarkViewed
    \/ ChildExits

SpecSsh == InitSsh /\ [][NextSsh]_vars

(***************************************************************************)
(* SpecData: the data path of one SshSession.  The ssh process writes      *)
(* chunks to its PTY; the session drains its data channel and sends        *)
(* commands.                                                               *)
(***************************************************************************)
\* The chunks an ssh process writes to its PTY: "a\n" and "b\n".
PtyChunks == { <<"a", "\n">>, <<"b", "\n">> }

InitData ==
    /\ TabInit
    /\ TermInit(DefaultMaxLines)
    /\ SshInit
    /\ AppInit
    /\ call = [op |-> "new", ok |-> TRUE, err |-> ""]

DataConnect ==
    \E outcome \in ConnectOutcomes :
        /\ outcome = "spawned" => os.spawned < MaxDataSpawns
        /\ LET r == connect(ssh, os, outcome)
           IN  SshBecomes(r) /\ call' = SshCall("connect", r)

\* The system: the process of a connected session writes a chunk to its
\* PTY.  No code of the session reads the PTY master.
ChildWrites ==
    /\ ssh.state = "Connected"
    /\ ssh.child_process # None
    /\ ssh.child_process[1] \in os.running
    /\ Len(os.pty_output) < MaxWrites
    /\ \E data \in PtyChunks :
          os' = [os EXCEPT !.pty_output = Append(@, data)]
    /\ call' = [op |-> "child_writes", ok |-> TRUE, err |-> ""]
    /\ UNCHANGED <<tabVars, appVars, termVars, ssh>>

SendCommand ==
    LET r == send_command(ssh)
    IN  /\ call' = [op |-> "send_command", ok |-> r.ok, err |-> r.err]
        /\ UNCHANGED <<tabVars, appVars, termVars, sshVars>>

NextData ==
    \/ DataConnect
    \/ Disconnect
    \/ ChildWrites
    \/ ChildExits
    \/ ProcessPendingData
    \/ SendCommand

SpecData == InitData /\ [][NextData]_vars

\* The caller keeps calling process_pending_data.
SpecDataLive == SpecData /\ WF_vars(ProcessPendingData)

(***************************************************************************)
(* SpecView: the operations that set and clear activity indicators, on     *)
(* the tabs of a TabManager and on an SshSession.  The two objects share   *)
(* no state; a behaviour works on the one while the other is as            *)
(* constructed.                                                            *)
(***************************************************************************)
ViewTabs ==
    /\ ssh = SshSession_new(DefaultMaxReconnect)
    /\ os = Os_new
    /\ \/ Add
       \/ MarkSessionActivity
       \/ SwitchToSessionAndClearActivity

ViewSession ==
    /\ sessions = <<>>
    /\ \/ DataConnect
       \/ UpdateState
       \/ ProcessPendingData
       \/ SshMarkViewed

NextView ==
    \/ ViewTabs
    \/ ViewSession

SpecView == Init /\ [][NextView]_vars

(***************************************************************************)
(* SpecBar: tabs added up to MAX_SESSIONS and switched between, the tab    *)
(* bar drawn after each operation.                                         *)
(***************************************************************************)
NextBar ==
    \/ CapAddSession
    \/ SwitchToSession

SpecBar == Init /\ [][NextBar]_vars

(***************************************************************************)
(* SpecRun: run_command_template applied to hosts whose fields are safe or *)
(* hold a shell metacharacter, with templates that reference some of the   *)
(* fields, none of them, or are malformed.                                 *)
(***************************************************************************)
\* name "web" or "w;b"; aliases "", "a=b" or "a|b"; user None, "bob" or
\* "b$b"; destination "h.io" or "h |x"; port None, "22" or "2;2";
\* proxy_command None, "nc %h" or "nc $h".
Hosts ==
    [ name : { <<"w", "e", "b">>, <<"w", ";", "b">> },
      aliases : { <<>>, <<"a", "=", "b">>, <<"a", "|", "b">> },
      user : { None, Some(<<"b", "o", "b">>), Some(<<"b", "$", "b">>) },
      destination : { <<"h", ".", "i", "o">>, <<"h", " ", "|", "x">> },
      port : { None, Some(<<"2", "2">>), Some(<<"2", ";", "2">>) },
      proxy_command : { None, Some(<<"n", "c", " ", "%", "h">>),
                        Some(<<"n", "c", " ", "$", "h">>) } ]

\* "echo {{name}}", "ssh {{user}}@{{destination}}", "echo {{aliases}}",
\* "echo hi", "{{port}}" and the unclosed "echo {{name".
Patterns ==
    { <<"e", "c", "h", "o", " ", "{", "{", "n", "a", "m", "e", "}", "}">>,
      <<"s", "s", "h", " ", "{", "{", "u", "s", "e", "r", "}", "}", "@",
        "{", "{", "d", "e", "s", "t", "i", "n", "a", "t", "i", "o", "n",
        "}", "}">>,
      <<"e", "c", "h", "o", " ", "{", "{", "a", "l", "i", "a", "s", "e", "s",
        "}", "}">>,
      <<"e", "c", "h", "o", " ", "h", "i">>,
      <<"{", "{", "p", "o", "r", "t", "}", "}">>,
      <<"e", "c", "h", "o", " ", "{", "{", "n", "a", "m", "e">> }

\* The host and the template of the call to come.
InitRun ==
    /\ TabInit
    /\ TermInit(DefaultMaxLines)
    /\ SshInit
    /\ app = App_new(<<TestHost>>)
    /\ key_press = NoKey
    /\ config_file = <<TestHost>>
    /\ \E host \in Hosts, pattern \in Patterns :
          template_run = [op |-> "none", host |-> host, pattern |-> pattern]
    /\ call = [ op |-> "new", index |-> 0, ok |-> TRUE,
                index_before |-> 0, count_before |-> 0 ]

RunCommandTemplate ==
    /\ template_run.op = "none"
    /\ \E outcome \in SpawnOutcomes :
          LET r == run_command_template(template_run.host,
                                        template_run.pattern, outcome)
          IN  template_run' = [ op |-> "run_command_template",
                                host |-> template_run.host,
                                pattern |-> template_run.pattern,
                                ok |-> r.ok, err |-> r.err,
                                rendered |-> r.rendered,
                                spawned |-> r.spawned ]
    /\ UNCHANGED <<tabVars, call, termVars, sshVars, app, key_press,
                   config_file>>

NextRun == RunCommandTemplate

SpecRun == InitRun /\ [][NextRun]_vars

(***************************************************************************)
(* SpecApp: the key that opens a new session for the selected host, the    *)
(* selection moving over the host table, and tabs being closed.            *)
(***************************************************************************)
\* The host tables tried: none found in the ssh config, or one host.
HostTables == { <<>>, <<TestHost>> }

InitApp ==
    /\ TabInit
    /\ TermInit(DefaultMaxLines)
    /\ SshInit
    /\ \E hosts \in HostTables : app = App_new(hosts) /\ config_file = hosts
    /\ template_run = NoRun
    /\ key_press = NoKey
    /\ call = [ op |-> "new", index |-> 0, ok |-> TRUE,
                index_before |-> 0, count_before |-> 0 ]

\* table_state.select: no row, or a row of the table (row 0 when the table
\* is empty, as next and previous select it).
SelectHost ==
    /\ \E selected \in {<<>>} \cup
            { <<i>> : i \in 0..(IF app.hosts = <<>> THEN 0
                                                   ELSE Len(app.hosts) - 1) } :
          app' = [app EXCEPT !.selected = selected]
    /\ call' = [ op |-> "select", index |-> 0, ok |-> TRUE,
                 index_before |-> current_session_index,
                 count_before |-> Len(sessions) ]
    /\ UNCHANGED <<tabVars, termVars, sshVars, template_run, key_press,
                   config_file>>

OpenNewSession ==
    LET r == open_new_session(app, Manager)
    IN  /\ app' = r.a
        /\ sessions' = r.m.sessions
        /\ current_session_index' = r.m.current_session_index
        /\ next_session_id' = r.m.next_session_id
        /\ call' = [ op |-> "open_new_session", index |-> 0,
                     ok |-> ~r.a.is_feedback_error,
                     index_before |-> current_session_index,
                     count_before |-> Len(sessions) ]
        /\ UNCHANGED <<termVars, sshVars, template_run, key_press,
                     config_file>>

NextApp ==
    \/ SelectHost
    \/ OpenNewSession
    \/ CapCloseSession

SpecApp == InitApp /\ [][NextApp]_vars

(***************************************************************************)
(* SpecKeys: the loop of App::run, one key press a turn, over a table of   *)
(* hosts read from the ssh config file, until a handler stops the loop.    *)
(***************************************************************************)
MaxSearchLen == 1
MaxFormChars == 1
MaxHosts == 2

\* "nex" at nex.de, and "qed" whose user, port and destination hold
\* characters that a shell interprets.
HostNex ==
    [ name |-> <<"n", "e", "x">>, aliases |-> <<>>, user |-> None,
      destination |-> <<"n", "e", "x", ".", "d", "e">>, port |-> None,
      proxy_command |-> None ]
HostQed ==
    [ name |-> <<"q", "e", "d">>, aliases |-> <<>>,
      user |-> Some(<<"b", "$", "b">>),
      destination |-> <<"h", " ", "|", "x">>,
      port |-> Some(<<"2", ";", "2">>),
      proxy_command |-> None ]

KeyHostTables == { <<HostNex, HostQed>> }

\* The default configuration, and one that runs "echo {{name}}" before a
\* session and exits after it.
KeyConfigs ==
    { [ command_template_on_session_start |-> None,
        command_template_on_session_end |-> None,
        exit_after_ssh_session_ends |-> FALSE ],
      [ command_template_on_session_start |->
            Some(<<"e", "c", "h", "o", " ",
                   "{", "{", "n", "a", "m", "e", "}", "}">>),
        command_template_on_session_end |-> None,
        exit_after_ssh_session_ends |-> TRUE ] }

InitKeys ==
    /\ TabInit
    /\ TermInit(DefaultMaxLines)
    /\ SshInit
    /\ \E hosts \in KeyHostTables, config \in KeyConfigs :
          /\ app = [App_new(hosts) EXCEPT !.config = config]
          /\ config_file = hosts
    /\ template_run = NoRun
    /\ key_press = NoKey
    /\ call = [ op |-> "new", index |-> 0, ok |-> TRUE,
                index_before |-> 0, count_before |-> 0 ]

\* The characters typed into the form so far.
FormChars(a) ==
    IF a.add_host_form = <<>> THEN 0
    ELSE Len(a.add_host_form[1].host_name.value)
           + Len(a.add_host_form[1].hostname.value)
           + Len(a.add_host_form[1].username.value)
           + Len(a.add_host_form[1].port.value)

\* The actions after which run returns or the process ends.
Ending == {"Stop", "Err", "Exit", "Panic"}

\* A turn of the loop of run with a key pressed.  The bounds stop the
\* typing and the adding of hosts and sessions.
KeyPress ==
    /\ key_press.action \notin Ending
    /\ \E key \in Keys :
          \E r \in run_key_press(app, Manager, config_file, key) :
             /\ Len(r.a.search.value) <= MaxSearchLen
             /\ FormChars(r.a) > FormChars(app)
                   => FormChars(r.a) <= MaxFormChars
                        \/ app.add_host_form = <<>>
             /\ Len(r.file) <= MaxHosts
             /\ app' = r.a
             /\ config_file' = r.file
             /\ sessions' = r.m.sessions
             /\ current_session_index' = r.m.current_session_index
             /\ next_session_id' = r.m.next_session_id
             /\ key_press' =
                   [ op |-> "key",
                     char_g |-> key.code = "g",
                     normal |-> app.form_state = "Hidden"
                                  /\ app.focus_state = "Normal",
                     action |-> r.action,
                     executed |-> r.executed ]
    /\ UNCHANGED <<call, termVars, sshVars, template_run>>

NextKeys == KeyPress

SpecKeys == InitKeys /\ [][NextKeys]_vars

(***************************************************************************)
(* Properties                                                              *)
(***************************************************************************)
\* The fields of the manager.
manager == <<sessions, current_session_index, next_session_id>>

Max(a, b) == IF a > b THEN a ELSE b

\* C1: the session count never exceeds MAX_SESSIONS; an add_session made
\* below the limit succeeds and raises the count by one, one made at the
\* limit fails and leaves the count as it was.
C1_SessionLimit ==
    /\ Len(sessions) <= MAX_SESSIONS
    /\ call.op = "add_session" =>
          IF call.count_before < MAX_SESSIONS
          THEN call.ok /\ Len(sessions) = call.count_before + 1
          ELSE ~call.ok /\ Len(sessions) = call.count_before

\* An add_session was refused with MAX_SESSIONS sessions registered.
C1_RejectedAtLimit ==
    /\ call.op = "add_session"
    /\ ~call.ok
    /\ call.count_before = MAX_SESSIONS

\* C2: the active index is below the session count whenever the registry is
\* non-empty and is 0 whenever it is empty.
C2_ActiveIndexInRange ==
    /\ current_session_index >= 0
    /\ sessions # <<>> => current_session_index < Len(sessions)
    /\ sessions = <<>> => current_session_index = 0

\* The active tab was the last one and was closed, and tabs remain.
C2_ClosedActiveLast ==
    /\ call.op = "close_session"
    /\ call.ok
    /\ call.index = call.index_before
    /\ call.index_before = call.count_before - 1
    /\ sessions # <<>>

\* C3: after close_session(i) with a valid i on a registry that stays
\* non-empty: closing the active tab at the last position makes the new last
\* tab active, closing a tab after the active one leaves the active index,
\* closing a tab before it lowers it by one.
C3_CloseAdjustsIndex ==
    (call.op = "close_session" /\ call.ok /\ sessions # <<>>) =>
        /\ (call.index = call.index_before
              /\ call.index_before = call.count_before - 1)
             => current_session_index = Len(sessions) - 1
        /\ call.index > call.index_before
             => current_session_index = call.index_before
        /\ call.index < call.index_before
             => current_session_index = call.index_before - 1

\* A tab before the active one was closed while the active tab was not the
\* last one.
C3_ClosedBeforeActive ==
    /\ call.op = "close_session"
    /\ call.ok
    /\ call.index < call.index_before
    /\ call.index_before < call.count_before - 1

\* C4 as claimed: closing a tab before or at the active index on a registry
\* that stays non-empty leaves the active index one less than before, clamped
\* into 0..new last index.
C4_CloseAtOrBeforeShiftsDown ==
    (call.op = "close_session" /\ call.ok /\ sessions # <<>>
        /\ call.index <= call.index_before) =>
        current_session_index =
            Min(Max(call.index_before - 1, 0), Len(sessions) - 1)

\* C4 as amended: closing a tab strictly before the active index on a
\* registry that stays non-empty lowers the active index by one; closing the
\* active tab itself leaves the active index where it was, unless it was the
\* last tab, when the new last tab becomes active.
C4_CloseShiftsDownOnlyBefore ==
    (call.op = "close_session" /\ call.ok /\ sessions # <<>>) =>
        /\ call.index < call.index_before
             => current_session_index = call.index_before - 1
        /\ call.index = call.index_before
             => current_session_index =
                    Min(call.index_before, Len(sessions) - 1)

\* The active tab was closed while it was neither the first nor the last.
C4_ClosedActiveInMiddle ==
    /\ call.op = "close_session"
    /\ call.ok
    /\ call.index = call.index_before
    /\ call.index_before > 0
    /\ call.index_before < call.count_before - 1

\* C5: switch_to_session(n) with n = 0 or n > session_count returns false and
\* leaves the manager as it was; any other n returns true and makes n - 1 the
\* active index.
C5_SwitchToSession ==
    [][call'.op = "switch_to_session" =>
          IF call'.index = 0 \/ call'.index > Len(sessions)
          THEN ~call'.ok /\ UNCHANGED manager
          ELSE /\ call'.ok
               /\ current_session_index' = call'.index - 1
               /\ UNCHANGED <<sessions, next_session_id>>]_vars

\* switch_to_session was refused for a number past the last tab while another
\* tab than the first was active.
C5_SwitchRejected ==
    /\ call.op = "switch_to_session"
    /\ ~call.ok
    /\ call.index > call.count_before
    /\ current_session_index > 0

\* C6 as claimed: after a successful switch to tab n by number, by
\* switch_to_session, by switch_to_session_and_clear_activity or by the
\* Ctrl+digit keys, the session at index n - 1 has no new-output flag.
C6_SwitchMarksViewed ==
    (call.op \in {"switch_to_session", "switch_to_session_and_clear_activity",
                  "on_key_press_ctrl"}
        /\ call.ok) =>
        ~sessions[call.index].has_new_output

\* C7: a successful add_session appends the session at the end, every
\* session registered before keeps its index, and the new tab is active.
C7_AddAppendsAndActivates ==
    [][(call'.op = "add_session" /\ call'.ok) =>
          /\ Len(sessions') = Len(sessions) + 1
          /\ SubSeq(sessions', 1, Len(sessions)) = sessions
          /\ current_session_index' = Len(sessions') - 1]_vars

\* A session was added to two or more tabs of which the first was active.
C7_AddedWhileFirstActive ==
    /\ call.op = "add_session"
    /\ call.ok
    /\ call.count_before >= 2
    /\ call.index_before = 0

\* C8: an add_session refused for capacity changes neither the sessions, nor
\* the active index, nor the next session id.
C8_RejectedAddHasNoEffect ==
    [][(call'.op = "add_session" /\ ~call'.ok) => UNCHANGED manager]_vars

\* An add_session was refused after a session had been closed and another
\* opened in its place.
C8_RejectedAfterReopen ==
    /\ call.op = "add_session"
    /\ ~call.ok
    /\ next_session_id = MAX_SESSIONS + 2

\* C9: close_session, disconnect_session and rename_session with an index at
\* or past the session count return false and leave the manager as it was.
C9_InvalidIndexRejected ==
    [][(call'.op \in {"close_session", "disconnect_session", "rename_session"}
          /\ call'.index >= Len(sessions)) =>
          ~call'.ok /\ UNCHANGED manager]_vars

\* close_session was refused for the index just past the last tab.
C9_CloseRejectedPastEnd ==
    /\ call.op = "close_session"
    /\ ~call.ok
    /\ call.index = call.count_before
    /\ call.count_before > 0

\* C10: disconnect_session(i) with a valid i returns true, leaves session i
\* Disconnected with has_error set and no process, changes no other field of
\* it, no other session, not the tab order, the count or the active index;
\* a second call on the same index changes nothing.
C10_DisconnectFrame ==
    [][(call'.op = "disconnect_session" /\ call'.index < Len(sessions)) =>
          LET i == call'.index + 1
          IN  /\ call'.ok
              /\ Len(sessions') = Len(sessions)
              /\ sessions'[i].status = "Disconnected"
              /\ sessions'[i].has_error
              /\ sessions'[i].ssh_process = NoProcess
              /\ sessions'[i] = [sessions[i] EXCEPT !.status = "Disconnected",
                                                    !.has_error = TRUE,
                                                    !.ssh_process = NoProcess]
              /\ \A k \in 1..Len(sessions) : k # i => sessions'[k] = sessions[k]
              /\ UNCHANGED <<current_session_index, next_session_id>>
              /\ disconnect_session(Manager', call'.index).m = Manager']_vars

\* A tab other than the active one was disconnected while the active tab had
\* new output and stayed Connected.
C10_DisconnectedInactiveTab ==
    /\ call.op = "disconnect_session"
    /\ call.ok
    /\ call.index # current_session_index
    /\ sessions[current_session_index + 1].status = "Connected"
    /\ sessions[current_session_index + 1].has_new_output

\* C11: the scrollback is never longer than max_lines, max_lines = 0
\* included.
C11_ScrollbackBounded ==
    Len(terminal.scrollback) <= terminal.max_lines

\* process_data pushed lines onto the scrollback of a buffer with
\* max_lines = 0.
C11_PushedWithZeroLimit ==
    /\ call.op = "process_data"
    /\ terminal.max_lines = 0
    /\ appended # <<>>

\* The line feeds in the chunks fed so far: the lines of output completed.
RECURSIVE LineFeeds(_)
LineFeeds(chunks) ==
    IF chunks = <<>> THEN 0
    ELSE Cardinality({k \in 1..Len(Head(chunks)) : Head(chunks)[k] = "\n"})
         + LineFeeds(Tail(chunks))

\* Every chunk fed is one line of text ended by a line feed, and no two are
\* the same.
FedDistinctLines ==
    /\ \A k \in 1..Len(fed) :
          /\ fed[k][Len(fed[k])] = "\n"
          /\ \A j \in 1..(Len(fed[k]) - 1) : fed[k][j] # "\n"
          /\ Len(fed[k]) > 1
    /\ \A j, k \in 1..Len(fed) : j # k => fed[j] # fed[k]

\* C12 as claimed: no line of output is pushed onto the scrollback more than
\* once, so the lines pushed are no more than the lines output; and a buffer
\* fed distinct lines in separate calls without eviction returns one search
\* result for each line fed that contains the query.
C12_LinesCommittedOnce ==
    /\ Len(appended) <= LineFeeds(fed)
    /\ (call.op = "search" /\ FedDistinctLines
          /\ Len(appended) <= terminal.max_lines) =>
          Len(found) =
              Cardinality({k \in 1..Len(fed) :
                  str_contains(to_lowercase(fed[k]), to_lowercase(call.arg))})

\* A line matches a query when its lower case contains that of the query.
Matches(line, query) == str_contains(to_lowercase(line), to_lowercase(query))

\* C13: search(query) returns the pairs (i, scrollback[i]) of the lines that
\* match, each once and in increasing i, and leaves the buffer as it was.
C13_SearchResult ==
    [][call'.op = "search" =>
          LET sb == terminal.scrollback
              query == call'.arg
          IN  /\ UNCHANGED terminal
              /\ \A k \in 1..Len(found') :
                    /\ found'[k].index \in 0..(Len(sb) - 1)
                    /\ found'[k].line = sb[found'[k].index + 1]
                    /\ Matches(found'[k].line, query)
              /\ \A i \in 0..(Len(sb) - 1) :
                    Matches(sb[i + 1], query) =>
                        \E k \in 1..Len(found') : found'[k].index = i
              /\ \A j, k \in 1..Len(found') :
                    j < k => found'[j].index < found'[k].index]_vars

\* A search in another case than the text returned some lines of the
\* scrollback and not others.
C13_SearchFoundSome ==
    /\ call.op = "search"
    /\ call.arg = <<"A", "B">>
    /\ found # <<>>
    /\ Len(found) < Len(terminal.scrollback)

\* The last n elements of a sequence.
LastN(seq, n) == SubSeq(seq, Len(seq) - n + 1, Len(seq))

\* C14: the scrollback is the most recent min(n, max_lines) of the n lines
\* pushed so far, in the order they were pushed.
C14_ScrollbackIsFifo ==
    terminal.scrollback =
        LastN(appended, Min(Len(appended), terminal.max_lines))

\* Lines were dropped from a scrollback that keeps two or more.
C14_EvictedOldest ==
    /\ call.op = "process_data"
    /\ terminal.max_lines >= 2
    /\ Len(appended) > terminal.max_lines
    /\ appended[1] # appended[Len(appended)]

\* C15 as claimed: a connect() that returned an error left the session in
\* state Error(reason) with the error indicator set, one that returned Ok
\* left it Connected; the session is not in Connecting after the call.
C15_ConnectEndsConnectedOrError ==
    call.op = "connect" =>
        IF call.ok THEN ssh.state = "Connected"
        ELSE ssh.state \in ErrorStates /\ ssh.activity = "Error"

\* The session holds a child process that has ended.
ChildExited(s, o) ==
    s.child_process # None /\ s.child_process[1] \notin o.running

\* The session holds a child process that is running.
ChildRunning(s, o) ==
    s.child_process # None /\ s.child_process[1] \in o.running

\* C16 as claimed: update_state() on an active session whose child process
\* has exited makes it Disconnected with the error indicator set, and
\* update_state() on a session whose process is running changes nothing.
C16_UpdateStateDetectsExit ==
    [][call'.op = "update_state" =>
          /\ (is_active(ssh) /\ ChildExited(ssh, os)) =>
                ssh'.state = "Disconnected" /\ ssh'.activity = "Error"
          /\ ChildRunning(ssh, os) => ssh' = ssh]_vars

\* C17: reconnect_attempts is never above max_reconnect_attempts, and no
\* step lowers it.
C17_AttemptsBoundedAndMonotonic ==
    /\ [](ssh.reconnect_attempts <= ssh.max_reconnect_attempts)
    /\ [][ssh'.reconnect_attempts >= ssh.reconnect_attempts]_vars

\* A connect() succeeded on a session that had used up its reconnections,
\* after a disconnect killed an earlier process.
C17_ConnectedAtLimit ==
    /\ call.op = "connect"
    /\ call.ok
    /\ os.killed # {}
    /\ ssh.max_reconnect_attempts > 0
    /\ ssh.reconnect_attempts = ssh.max_reconnect_attempts

\* C18: reconnect() makes no more than max_reconnect_attempts calls of
\* connect(); a reconnect() called with the counter at the maximum returns
\* the 'max reconnection attempts exceeded' error and moves the state to
\* Error, and nothing else of the session or of the processes changes.
C18_ExhaustionIsTerminal ==
    /\ [](os.reconnect_connects <= ssh.max_reconnect_attempts)
    /\ [][(call'.op = "reconnect"
             /\ ssh.reconnect_attempts >= ssh.max_reconnect_attempts) =>
            /\ ~call'.ok
            /\ call'.err = "Max reconnection attempts exceeded"
            /\ ssh' = [ssh EXCEPT !.state = ErrorMaxReconnect]
            /\ os' = os]_vars

\* reconnect() was refused at the limit on a session that holds a running
\* process.
C18_RefusedWhileConnected ==
    /\ call.op = "reconnect"
    /\ call.err = "Max reconnection attempts exceeded"
    /\ ssh.max_reconnect_attempts > 0
    /\ ChildRunning(ssh, os)
    /\ ssh.data_receiver # None

\* C19 as claimed: reconnect() called in Connected, Connecting or
\* Reconnecting leaves the attempt counter, the handles and the processes
\* as they were.
C19_ReconnectOnlyWhenDown ==
    [][(call'.op = "reconnect"
          /\ ssh.state \in {"Connected", "Connecting", "Reconnecting"}) =>
         /\ ssh'.reconnect_attempts = ssh.reconnect_attempts
         /\ ssh'.child_process = ssh.child_process
         /\ ssh'.pty_master = ssh.pty_master
         /\ os' = os]_vars

\* C20: disconnect() leaves the session Disconnected without any of its
\* four handles and with the activity indicator it had; a second
\* disconnect() would change neither the session nor the processes.
C20_DisconnectIdempotent ==
    [][call'.op = "disconnect" =>
          /\ ssh'.state = "Disconnected"
          /\ ssh'.child_process = None
          /\ ssh'.pty_master = None
          /\ ssh'.data_receiver = None
          /\ ssh'.command_sender = None
          /\ ssh'.activity = ssh.activity
          /\ disconnect(ssh', os').s = ssh'
          /\ disconnect(ssh', os').os = os']_vars

\* disconnect() was called on a session that had received output, and its
\* only process was killed.
C20_DisconnectedAfterOutput ==
    /\ call.op = "disconnect"
    /\ ssh.activity = "NewOutput"
    /\ os.spawned = 1
    /\ os.killed = {1}

\* C21 as claimed: a running process is the one whose handle the session
\* holds, and every process the session spawned is either that one or one
\* that kill() was called on.
C21_NoProcessLeftWithoutHandle ==
    /\ \A pid \in os.running : ssh.child_process = Some(pid)
    /\ \A pid \in 1..os.spawned :
          ssh.child_process # Some(pid) => pid \in os.killed

\* The chunks of a sequence that came from a PTY: all but the placeholder
\* that setup_data_channels queues itself.
PtyOutput(chunks) == SelectSeq(chunks, LAMBDA data : data # Placeholder)

\* seq is the beginning of other.
IsPrefix(seq, other) ==
    Len(seq) <= Len(other) /\ seq = SubSeq(other, 1, Len(seq))

\* C22 as claimed: the chunks applied to the terminal buffer are the first
\* of the chunks the process wrote, in the order it wrote them, and a chunk
\* written to the PTY of a session is applied to its buffer eventually,
\* unless the session stops being Connected first.
C22_PtyOutputApplied ==
    /\ [](IsPrefix(PtyOutput(fed), os.pty_output))
    /\ (os.pty_output # <<>>) ~>
           (PtyOutput(fed) # <<>> \/ ssh.state # "Connected")

\* The chunks waiting in the data channel of the session; none when it has
\* no receiver.
Queued(s) == IF s.data_receiver = None THEN <<>> ELSE s.data_receiver[1]

\* C23: process_pending_data() with nothing queued leaves the session and
\* its terminal buffer as they were; with chunks queued it applies them to
\* the buffer and raises the new-output indicator; after it nothing is
\* queued.
C23_DrainOnlyWhenQueued ==
    [][call'.op = "process_pending_data" =>
          /\ Queued(ssh) = <<>> => ssh' = ssh /\ terminal' = terminal
          /\ Queued(ssh) # <<>> =>
                /\ ssh'.activity = "NewOutput"
                /\ terminal'.has_new_output
                /\ fed' = fed \o Queued(ssh)
          /\ Queued(ssh') = <<>>]_vars

\* process_pending_data() found the channel of a session in error empty.
C23_DrainedEmptyChannel ==
    /\ call.op = "process_pending_data"
    /\ ssh.data_receiver = Some(<<>>)
    /\ ssh.activity = "Error"

\* C24 as claimed: send_command returns Ok on a Connected session and an
\* error on a session without a connection, and leaves the session as it
\* was.
C24_SendCommandReportsDelivery ==
    [][call'.op = "send_command" =>
          /\ ssh' = ssh
          /\ ssh.state = "Connected" => call'.ok
          /\ ssh.command_sender = None => ~call'.ok]_vars

\* The marks of the flags that are set, of '*' for new output, '!' for
\* error and '@' for background activity, in that order.
Suffix(s) ==
    LET marks == << [mark |-> "*", set |-> s.has_new_output],
                    [mark |-> "!", set |-> s.has_error],
                    [mark |-> "@", set |-> s.has_background_activity] >>
        chosen == SelectSeq(marks, LAMBDA m : m.set)
    IN  [k \in 1..Len(chosen) |-> chosen[k].mark]

\* C25: the label of every tab is '[' id ':' name suffix ']', the suffix
\* being the marks of its flags in the order '*', '!', '@', in whatever
\* order the flags were set.
C25_TabDisplayName ==
    \A k \in 1..Len(sessions) :
        LET s == sessions[k]
            label == tab_display_name(s)
            head == <<"[">> \o to_string(s.id) \o <<":">> \o NameChars[s.host.name]
        IN  /\ Len(label) = Len(head) + Len(Suffix(s)) + 1
            /\ SubSeq(label, 1, Len(head)) = head
            /\ SubSeq(label, Len(head) + 1, Len(label) - 1) = Suffix(s)
            /\ label[Len(label)] = "]"

\* A tab carries the three marks, and another tab carries none.
C25_AllMarksAndNone ==
    \E j, k \in 1..Len(sessions) :
        /\ tab_display_name(sessions[j])
              = <<"[", "1", ":", "h", "o", "s", "t", "1", "*", "!", "@", "]">>
        /\ tab_display_name(sessions[k])
              = <<"[", "2", ":", "h", "o", "s", "t", "1", "]">>

\* C26: clear_activity_indicators changes nothing of a session but
\* has_new_output, which it makes false; a successful
\* switch_to_session_and_clear_activity(n) does that to the n-th session and
\* leaves every other session as it was; SshSession::mark_viewed turns the
\* indicator NewOutput into None, leaves any other indicator, and changes
\* nothing else of the session.
C26_ViewedClearsOnlyNewOutput ==
    /\ [](\A k \in 1..Len(sessions) :
            clear_activity_indicators(sessions[k])
                = [sessions[k] EXCEPT !.has_new_output = FALSE])
    /\ [][(call'.op = "switch_to_session_and_clear_activity" /\ call'.ok) =>
            /\ Len(sessions') = Len(sessions)
            /\ \A k \in 1..Len(sessions) :
                  sessions'[k] = IF k = call'.index
                                 THEN [sessions[k] EXCEPT !.has_new_output = FALSE]
                                 ELSE sessions[k]]_vars
    /\ [][call'.op = "mark_viewed" =>
            ssh' = [ssh EXCEPT !.activity =
                       IF @ = "NewOutput" THEN "None" ELSE @]]_vars

\* The first tab was brought to the front with its three flags set, and
\* keeps the error and the background flag; the second tab keeps its new
\* output flag.
C26_SwitchedToFlaggedTab ==
    /\ call.op = "switch_to_session_and_clear_activity"
    /\ call.ok
    /\ call.index = 1
    /\ Len(sessions) = 2
    /\ ~sessions[1].has_new_output
    /\ sessions[1].last_activity = "Some"
    /\ sessions[1].has_error
    /\ sessions[1].has_background_activity
    /\ sessions[2].has_new_output

\* C27 as claimed: mark_session_activity clears no flag of any tab, and
\* process_pending_data() leaves the error indicator of an SshSession set.
C27_IndicatorsIndependent ==
    /\ [][call'.op = "mark_session_activity" =>
            /\ Len(sessions') = Len(sessions)
            /\ \A k \in 1..Len(sessions) :
                  /\ sessions[k].has_new_output => sessions'[k].has_new_output
                  /\ sessions[k].has_error => sessions'[k].has_error
                  /\ sessions[k].has_background_activity =>
                        sessions'[k].has_background_activity]_vars
    /\ [][(call'.op = "process_pending_data" /\ ssh.activity = "Error") =>
            ssh'.activity = "Error"]_vars


\* C28: open_new_session refuses a fourth session: called with 3 sessions
\* registered, it leaves the session count at 3 and sets an error feedback
\* message.
C28_FourthSessionRefused ==
    (call.op = "open_new_session" /\ call.count_before = 3) =>
        /\ Len(sessions) = 3
        /\ app.feedback_message # <<>>
        /\ app.is_feedback_error


\* The labels read off a tab bar: each stretch of text that ends at a "]".
Labels(display) ==
    LET closers == {k \in 1..Len(display) : display[k] = "]"}
        EndOf(j) == CHOOSE k \in closers :
                        Cardinality({c \in closers : c <= k}) = j
    IN  [j \in 1..Cardinality(closers) |->
            SubSeq(display, IF j = 1 THEN 1 ELSE EndOf(j - 1) + 1, EndOf(j))]

\* The labels of the tab bar as tab_bar_display draws it now.
BarLabels ==
    CHOOSE r \in { Labels(display) : display \in {tab_bar_display(Manager)} } :
        TRUE

\* A label without the mark of the current tab.
StripMark(label) == IF Head(label) = "▶" THEN Tail(label) ELSE label

\* Where a 10-tab window centred on the active tab starts:
\* clamp(active_index - 5, 0, total - 10), and 0 with at most 10 tabs.
WindowStart ==
    LET total == Len(sessions)
        ideal == IF current_session_index > 5
                 THEN current_session_index - 5 ELSE 0
    IN  IF total <= 10 THEN 0
        ELSE IF ideal > total - 10 THEN total - 10 ELSE ideal

Unsafe(value) == \E k \in 1..Len(value) : value[k] \notin AllowedChars

\* One of the six fields of the host, where it has a value, is unsafe.
HasUnsafeField(host) ==
    \/ Unsafe(host.name)
    \/ host.user # None /\ Unsafe(host.user[1])
    \/ Unsafe(host.destination)
    \/ host.port # None /\ Unsafe(host.port[1])
    \/ host.proxy_command # None /\ Unsafe(host.proxy_command[1])
    \/ Unsafe(host.aliases)

\* C30: whenever the host's name, user, destination, port, proxy_command or
\* aliases holds a character outside the allowlist, run_command_template
\* returns an error, has rendered nothing and has spawned no process,
\* whether or not the template references that field.
C30_UnsafeFieldNeverRuns ==
    (template_run.op = "run_command_template"
        /\ HasUnsafeField(template_run.host)) =>
            /\ ~template_run.ok
            /\ template_run.rendered = None
            /\ template_run.spawned = None

\* "echo {{name}}" was refused for a host whose aliases alone are unsafe, and
\* the same template was run for a host whose fields are all safe.
C30_RefusedForUnreferencedAliases ==
    /\ template_run.op = "run_command_template"
    /\ template_run.pattern
          = <<"e", "c", "h", "o", " ", "{", "{", "n", "a", "m", "e", "}", "}">>
    /\ Unsafe(template_run.host.aliases)
    /\ ~HasUnsafeField([template_run.host EXCEPT !.aliases = <<>>])
    /\ ~template_run.ok
    /\ template_run.err = "dangerous characters"


\* C31: close_session(i) with a valid i removes exactly the session that was
\* at index i: one session fewer, the sessions before i stay where they
\* were, the sessions after i move down by one, and each of them is the same
\* record as before (id, name, status, activity flags).
C31_CloseRemovesExactlyOne ==
    [][(call'.op = "close_session" /\ call'.ok) =>
          /\ Len(sessions') = Len(sessions) - 1
          /\ \A k \in 1..Len(sessions') :
                sessions'[k] = IF k <= call'.index THEN sessions[k]
                               ELSE sessions[k + 1]]_vars

\* The middle one of three tabs has been closed; the two that remain differ
\* in name and in status.
C31_ClosedMiddleOfThree ==
    /\ call.op = "close_session"
    /\ call.ok
    /\ call.index = 1
    /\ call.count_before = 3
    /\ Len(sessions) = 2
    /\ sessions[1].host.name # sessions[2].host.name
    /\ sessions[1].status # sessions[2].status
    /\ sessions[1].id = 1
    /\ sessions[2].id = 3


\* C32: the number shown in a tab's label identifies the tab for switching:
\* every registered session's id equals its 1-based position, and a
\* successful switch_to_session(k) leaves the session whose id is k active.
C32_LabelNumberIsPosition ==
    /\ \A k \in 1..Len(sessions) : sessions[k].id = k
    /\ (call.op = "switch_to_session" /\ call.ok) =>
          sessions[current_session_index + 1].id = call.index


\* C33: session ids are never reused: the ids of the registered sessions are
\* strictly increasing in tab order (so pairwise distinct) and below the next
\* id to issue; the next id never goes down, and a session just added carries
\* the id that was next, greater than every id issued before.
C33_IdsNeverReused ==
    /\ [](/\ \A j, k \in 1..Len(sessions) :
                j < k => sessions[j].id < sessions[k].id
          /\ \A k \in 1..Len(sessions) : sessions[k].id < next_session_id)
    /\ [][/\ next_session_id' >= next_session_id
          /\ (call'.op = "add_session" /\ call'.ok) =>
                /\ sessions'[Len(sessions')].id = next_session_id
                /\ next_session_id' = next_session_id + 1]_vars

\* A session has been added after another one was closed: its id is past
\* its position.
C33_AddedAfterClose ==
    /\ call.op = "add_session"
    /\ call.ok
    /\ Closed = 1
    /\ Len(sessions) >= 2
    /\ sessions[Len(sessions)].id = Len(sessions) + 1


\* C34: a tab whose status is Connected has a spawned SSH process: in every
\* state reached through TabManager operations, each registered session
\* either reports is_connected() or does not have the status Connected.
C34_ConnectedTabHasProcess ==
    \A k \in 1..Len(sessions) :
        sessions[k].status = "Connected" => is_connected(sessions[k])


\* C35: in every state reached through TabManager operations each
\* registered session is Disconnected exactly when its has_error flag is set
\* and is never Reconnecting; and a session that is Disconnected is still
\* Disconnected after every operation that keeps it in the registry.
C35_DisconnectedIffError ==
    /\ [](\A k \in 1..Len(sessions) :
            /\ (sessions[k].status = "Disconnected") <=> sessions[k].has_error
            /\ sessions[k].status # "Reconnecting")
    /\ [][\A j \in 1..Len(sessions), k \in 1..Len(sessions') :
            (sessions[j].id = sessions'[k].id
                /\ sessions[j].status = "Disconnected") =>
                    sessions'[k].status = "Disconnected"]_vars

\* The active tab was switched to and viewed while Disconnected with its
\* error flag set, next to a tab that is Connected without the flag.
C35_ViewedDisconnectedTab ==
    /\ call.op = "switch_to_session_and_clear_activity"
    /\ call.ok
    /\ Len(sessions) = 2
    /\ sessions[current_session_index + 1].status = "Disconnected"
    /\ sessions[current_session_index + 1].has_error
    /\ \E k \in 1..2 : sessions[k].status = "Connected" /\ ~sessions[k].has_error


\* The four resources of the session that are held.
HeldResources(s) ==
    { r \in {"child_process", "pty_master", "data_receiver", "command_sender"} :
        s[r] # None }

\* C36: in every state of an SshSession reached through new, connect,
\* reconnect, disconnect, update_state and process_pending_data, the child
\* handle, PTY master, data receiver and command sender are all present or
\* all absent: all present when the state is Connected, all absent when it
\* is Disconnected.
C36_ResourcesAllOrNone ==
    /\ Cardinality(HeldResources(ssh)) \in {0, 4}
    /\ ssh.state = "Connected" => Cardinality(HeldResources(ssh)) = 4
    /\ ssh.state = "Disconnected" => Cardinality(HeldResources(ssh)) = 0


\* A reconnect has torn the first connection down and built a second one.
C36_ReconnectedWithAllFour ==
    /\ call.op = "reconnect"
    /\ call.ok
    /\ ssh.state = "Connected"
    /\ os.spawned = 2
    /\ os.killed = {1}
    /\ Cardinality(HeldResources(ssh)) = 4


\* C37: in Normal mode, after the handling of a key press other than 'g'
\* (a recognised key, an unrecognised one or a Ctrl shortcut; Ctrl+G, which
\* is handled as 'g', is left aside) that leaves the loop running, no 'g' is
\* pending.
C37_OtherKeyClearsPendingG ==
    (/\ key_press.op = "key"
     /\ key_press.normal
     /\ ~key_press.char_g
     /\ key_press.action \notin Ending)
        => ~app.pending_g

\* C38: whenever form_state is Active, add_host_form is Some.
C38_ActiveFormExists ==
    app.form_state = "Active" => app.add_host_form # <<>>

\* C39: no command executed embeds a user, a port or a destination holding
\* a character outside the allowlist.
C39_ExecutedFieldsAllowlisted ==
    \A k \in 1..Len(key_press.executed) :
        LET host == key_press.executed[k].host
        IN  /\ ~Unsafe(host.destination)
            /\ \A field \in {host.user, host.port} :
                   field # <<>> => ~Unsafe(field[1])

====
